---- MODULE Spec2Model ----
(***************************************************************************)
(* Model of the resilient batch scrape-and-summarize pipeline of           *)
(* agent-scrape (src/script.ts): the RateLimiter, retryWithBackoff, the    *)
(* batch orchestrator summarizeBatch / processUrl, summarizeWebsite with   *)
(* its link-following loop, and the functions evaluated in the page.       *)
(*                                                                         *)
(* The specifications of the module share its variables:                   *)
(*   SpecRL     one RateLimiter instance driven by several producers,      *)
(*              with a clock (now) and timers (SpecRLFair: with weak       *)
(*              fairness);                                                 *)
(*   SpecRetry  one retryWithBackoff call over an operation whose          *)
(*              outcome at each attempt is an input;                       *)
(*   SpecBatch  one summarizeBatch run over a list of URLs                 *)
(*              (SpecBatchFair: with weak fairness and failures without    *)
(*              a budget);                                                 *)
(*   SpecSite   one summarizeWebsite run over one URL, followLinks unset;  *)
(*   SpecFollow one summarizeWebsite run with followLinks set;             *)
(*   SpecLoops  the runs of SpecBatch and SpecFollow together;             *)
(*   SpecText   removeDuplicateLines and extractAndCleanText over the      *)
(*              text of a page;                                            *)
(*   SpecDom    text, metadata and link extraction over the document of    *)
(*              a page;                                                    *)
(*   SpecScraper    one Scraper.withRetry call (src/src/scraper.ts);       *)
(*   SpecSummarize  summarizeContent calls through the shared rate         *)
(*              limiter, with their retries;                               *)
(*   SpecApi    the API server (src/unnamed/part_003): concurrent          *)
(*              POST /scrape requests and shutdown signals.                *)
(* Each specification leaves the variables of the others unchanged.        *)
(***************************************************************************)
EXTENDS Integers, Sequences, FiniteSets, TLC

VARIABLES
    rl,         \* the RateLimiter's fields (SpecRL)
    now,        \* Date.now() (SpecRL)
    opStatus,   \* per operation: state of the promise execute() returned (SpecRL)
    starts,     \* history: the instants at which fn was called, in order (SpecRL)
    handoffs,   \* history: the operations dispatched when a failed one completed (SpecRL)
    calls,      \* history: per operation, the calls of fn and what its promise got (SpecRL)
    rb,         \* the locals of one retryWithBackoff call (SpecRetry)
    opLog,      \* history: the outcomes of fn's invocations, in order (SpecRetry)
    waited,     \* history: total time slept by that call (SpecRetry)
    urls,       \* the argument of summarizeBatch (SpecBatch)
    options,    \* the SummaryOptions of the run (SpecBatch)
    bs,         \* the locals of summarizeBatch / processUrl / withBrowser (SpecBatch)
    hist,       \* history: the collaborator calls made so far (SpecBatch)
    ws,         \* the locals of summarizeWebsite / withBrowser (SpecSite)
    tx,         \* a page's text and what the text functions made of it (SpecText)
    dom,        \* a page's document and what the evaluations made of it (SpecDom)
    api         \* the API server: its browser variable, requests and shutdowns (SpecApi)

vars == <<rl, now, opStatus, starts, rb, opLog, waited, urls, options, bs, hist, ws, tx,
         handoffs, dom, calls, api>>

rlVars == <<rl, now, opStatus, starts, handoffs, calls>>
retryVars == <<rb, opLog, waited>>
batchVars == <<urls, options, bs, hist>>
pageVars == <<ws, tx, dom, api>>

(***************************************************************************)
(* Bounds of the model.                                                    *)
(***************************************************************************)
MaxOps == 3               \* operations handed to RateLimiter.execute
MaxConcurrentBound == 2   \* maxConcurrent ranges over 1..MaxConcurrentBound
MaxMinDelay == 2          \* minDelay ranges over 1..MaxMinDelay (clock units)
MaxTicks == 4             \* the clock advances at most this far
MaxRetriesBound == 3      \* maxRetries ranges over 0..MaxRetriesBound
MaxBaseDelay == 2         \* baseDelay ranges over 1..MaxBaseDelay
MaxLate == 1              \* a timer fires at most this much after its delay
MaxUrls == 3              \* summarizeBatch is given at most this many URLs
MaxFaults == 2            \* collaborator failures injected into one batch run
MaxFairUrls == 1          \* URLs of a batch run in which any call may fail
MaxLines == 4             \* a page's text has at most this many lines
MaxRequests == 2          \* POST /scrape requests the API server receives
MaxSignals == 1           \* SIGTERM / SIGINT signals delivered to the API server

Ops == 1..MaxOps
StartTime == MaxMinDelay  \* Date.now() at start is far beyond minDelay
MaxTime == StartTime + MaxTicks

(***************************************************************************)
(* SummarizerError and other thrown values.                                *)
(* kind = "SummarizerError" for instances of the class, "Error" for any    *)
(* other Error a collaborator throws (it has no retryable field: the       *)
(* record's retryable is FALSE and is never read for that kind).           *)
(* id tells two thrown objects apart; attempts and cause are what the      *)
(* MAX_RETRIES_EXCEEDED message embeds.                                    *)
(***************************************************************************)
SummarizerError(message, code, retryable, id) ==
    [kind |-> "SummarizerError", message |-> message, code |-> code,
     retryable |-> retryable, id |-> id, attempts |-> 0, cause |-> ""]

PlainError(message, id) ==
    [kind |-> "Error", message |-> message, code |-> "",
     retryable |-> FALSE, id |-> id, attempts |-> 0, cause |-> ""]

NoError == [kind |-> "none", message |-> "", code |-> "",
            retryable |-> FALSE, id |-> 0, attempts |-> 0, cause |-> ""]

\* error instanceof SummarizerError && !error.retryable
IsNonRetryable(error) == error.kind = "SummarizerError" /\ ~error.retryable

(***************************************************************************)
(* retryWithBackoff (src/script.ts:118-147).                               *)
(* A call is the record of its locals:                                     *)
(*   attempt    the loop index                                             *)
(*   calls      how many times fn() has been invoked                       *)
(*   pc         "call"  awaiting fn() (line 126)                           *)
(*              "sleep" awaiting sleep(delay) (line 137)                   *)
(*              "returned" / "raised"  the call has settled                *)
(*   value      the value returned, raised the error thrown                *)
(*   waits      the delays logged and slept, in order (lines 135-137)      *)
(***************************************************************************)
RetryIdle == [maxRetries |-> 0, baseDelay |-> 0, operation |-> "",
              attempt |-> 0, calls |-> 0, pc |-> "idle", lastError |-> NoError, raised |-> NoError,
              value |-> 0, delay |-> 0, waits |-> <<>>]

\* lines 122-126: the loop is entered and fn() invoked for attempt 0
RetryInit(maxRetries, baseDelay, operation) ==
    [RetryIdle EXCEPT !.maxRetries = maxRetries, !.baseDelay = baseDelay,
                      !.operation = operation, !.calls = 1, !.pc = "call"]

BackoffDelayLinear(baseDelay, attempt) == baseDelay * (attempt + 1)

BackoffDelayConstant(baseDelay, attempt) == baseDelay

\* line 135: options.baseDelay * Math.pow(2, attempt)
BackoffDelay(baseDelay, attempt) == baseDelay * (2 ^ attempt)

MaxRetriesExceededRetryable(operation, maxRetries, lastError) ==
    [kind |-> "SummarizerError",
     message |-> operation \o " failed after " \o ToString(maxRetries + 1)
                    \o " attempts: " \o lastError.message,
     code |-> "MAX_RETRIES_EXCEEDED", retryable |-> TRUE, id |-> 0,
     attempts |-> maxRetries + 1, cause |-> lastError.message]

\* lines 142-146
MaxRetriesExceeded(operation, maxRetries, lastError) ==
    [kind |-> "SummarizerError",
     message |-> operation \o " failed after " \o ToString(maxRetries + 1)
                    \o " attempts: " \o lastError.message,
     code |-> "MAX_RETRIES_EXCEEDED", retryable |-> FALSE, id |-> 0,
     attempts |-> maxRetries + 1, cause |-> lastError.message]

\* line 126: fn() resolved with v
RetryOnSuccess(r, v) == [r EXCEPT !.pc = "returned", !.value = v]

RetryOnFailureOneAttemptShort(r, error) ==
    LET r1 == [r EXCEPT !.lastError = error]
    IN  IF IsNonRetryable(error)
        THEN [r1 EXCEPT !.pc = "raised", !.raised = error]
        ELSE IF r.attempt + 1 < r.maxRetries
        THEN [r1 EXCEPT !.pc = "sleep",
                        !.delay = BackoffDelay(r.baseDelay, r.attempt),
                        !.waits = Append(@, BackoffDelay(r.baseDelay, r.attempt))]
        ELSE [r1 EXCEPT !.attempt = @ + 1, !.pc = "raised",
                        !.raised = MaxRetriesExceeded(r.operation, r.maxRetries, error)]

RetryOnFailureRetriesAll(r, error) ==
    LET r1 == [r EXCEPT !.lastError = error]
    IN  IF r.attempt < r.maxRetries
        THEN [r1 EXCEPT !.pc = "sleep",
                        !.delay = BackoffDelay(r.baseDelay, r.attempt),
                        !.waits = Append(@, BackoffDelay(r.baseDelay, r.attempt))]
        ELSE [r1 EXCEPT !.attempt = @ + 1, !.pc = "raised",
                        !.raised = MaxRetriesExceeded(r.operation, r.maxRetries, error)]

\* lines 127-139, and 142-146 when the loop ends: fn() rejected with error
RetryOnFailureWaitsBeforeRaising(r, error) ==
    LET r1 == [r EXCEPT !.lastError = error]
    IN  IF IsNonRetryable(error)
        THEN [r1 EXCEPT !.pc = "raised", !.raised = error]
        ELSE IF r.attempt < r.maxRetries
        THEN [r1 EXCEPT !.pc = "sleep",
                        !.delay = BackoffDelay(r.baseDelay, r.attempt),
                        !.waits = Append(@, BackoffDelay(r.baseDelay, r.attempt))]
        ELSE [r1 EXCEPT !.attempt = @ + 1, !.pc = "raised",
                        !.delay = BackoffDelay(r.baseDelay, r.attempt),
                        !.waits = Append(@, BackoffDelay(r.baseDelay, r.attempt)),
                        !.raised = MaxRetriesExceeded(r.operation, r.maxRetries, error)]

RetryOnFailure(r, error) ==
    LET r1 == [r EXCEPT !.lastError = error]
    IN  IF IsNonRetryable(error)
        THEN [r1 EXCEPT !.pc = "raised", !.raised = error]
        ELSE IF r.attempt < r.maxRetries
        THEN [r1 EXCEPT !.pc = "sleep",
                        !.delay = BackoffDelay(r.baseDelay, r.attempt),
                        !.waits = Append(@, BackoffDelay(r.baseDelay, r.attempt))]
        ELSE [r1 EXCEPT !.attempt = @ + 1, !.pc = "raised",
                        !.raised = MaxRetriesExceeded(r.operation, r.maxRetries, error)]

RetryAfterSleepSameAttempt(r) ==
    [r EXCEPT !.calls = @ + 1, !.pc = "call", !.delay = 0]

\* line 137 resolved; attempt++ and fn() is invoked again (lines 124-126)
RetryAfterSleep(r) ==
    [r EXCEPT !.attempt = @ + 1, !.calls = @ + 1, !.pc = "call", !.delay = 0]

(***************************************************************************)
(* RateLimiter (src/script.ts:52-98).                                      *)
(* rl.queue     the queued task closures, by operation, FIFO               *)
(* rl.running   the running counter                                        *)
(* rl.lastRequestTime                                                      *)
(* rl.delaying  dispatched tasks awaiting the setTimeout of line 69, as    *)
(*              records [op, wake]                                         *)
(* rl.active    dispatched tasks whose fn() is in flight (line 73)         *)
(***************************************************************************)
RateLimiter(maxConcurrent, minDelay) ==
    [maxConcurrent |-> maxConcurrent, minDelay |-> minDelay,
     queue |-> <<>>, running |-> 0, lastRequestTime |-> 0,
     delaying |-> {}, active |-> {}]

\* lines 72-73: lastRequestTime = Date.now(); fn() is called
StartFn(s, op, t) ==
    [s EXCEPT !.lastRequestTime = t, !.active = @ \cup {op}]

\* lines 66-73: the body of the queued closure up to its first await
RunTask(s, op, t) ==
    LET timeSinceLastRequest == t - s.lastRequestTime
    IN  IF timeSinceLastRequest < s.minDelay
        THEN [s EXCEPT !.delaying =
                 @ \cup {[op |-> op, wake |-> t + (s.minDelay - timeSinceLastRequest)]}]
        ELSE StartFn(s, op, t)

ProcessQueueNoLimit(s, t) ==
    IF Len(s.queue) = 0
    THEN s
    ELSE RunTask([s EXCEPT !.running = @ + 1, !.queue = Tail(@)], Head(s.queue), t)

\* lines 87-97
ProcessQueue(s, t) ==
    IF s.running >= s.maxConcurrent \/ Len(s.queue) = 0
    THEN s
    ELSE RunTask([s EXCEPT !.running = @ + 1, !.queue = Tail(@)], Head(s.queue), t)

\* lines 62-85: queue.push(closure); processQueue()
RLExecute(s, op, t) == ProcessQueue([s EXCEPT !.queue = Append(@, op)], t)

\* line 69 timer fires, then lines 72-73
RLTimerFire(s, op, t) ==
    StartFn([s EXCEPT !.delaying = {d \in @ : d.op /= op}], op, t)

RLCompleteNoDispatch(s, op, t) ==
    [s EXCEPT !.active = @ \ {op}, !.running = @ - 1]

\* lines 74-80: fn() settled; finally { running--; processQueue() }
RLComplete(s, op, t) ==
    ProcessQueue([s EXCEPT !.active = @ \ {op}, !.running = @ - 1], t)

\* the operations dispatched (dequeued) and not yet completed
InFlight(s) == {d.op : d \in s.delaying} \cup s.active

\* the instant recorded when an action starts some fn (at most one per action)
StartsAfter(s, s2, t) ==
    IF s2.active \ s.active /= {} THEN Append(starts, t) ELSE starts

(***************************************************************************)
(* Text functions (src/script.ts:295-361). A text is a string; the string  *)
(* methods used by the code are defined character by character.            *)
(***************************************************************************)
CharAt(text, i) == SubSeq(text, i, i)

\* the characters String.prototype.trim removes, among those of the texts explored
Whitespace == {" ", "\t", "\n"}

UpperCase == "ABCDEFGHIJKLMNOPQRSTUVWXYZ"
LowerCase == "abcdefghijklmnopqrstuvwxyz"

RECURSIVE TrimStart(_)
TrimStart(text) ==
    IF Len(text) > 0 /\ CharAt(text, 1) \in Whitespace
    THEN TrimStart(SubSeq(text, 2, Len(text)))
    ELSE text

RECURSIVE TrimEnd(_)
TrimEnd(text) ==
    IF Len(text) > 0 /\ CharAt(text, Len(text)) \in Whitespace
    THEN TrimEnd(SubSeq(text, 1, Len(text) - 1))
    ELSE text

\* String.prototype.trim
Trim(text) == TrimEnd(TrimStart(text))

\* the lower-case letter of each upper-case letter
LowerCaseOf ==
    [c \in {CharAt(UpperCase, k) : k \in 1..Len(UpperCase)} |->
        CharAt(LowerCase, CHOOSE k \in 1..Len(UpperCase) : CharAt(UpperCase, k) = c)]

LowerOf(c) == IF c \in DOMAIN LowerCaseOf THEN LowerCaseOf[c] ELSE c

RECURSIVE ToLowerCase(_)
\* String.prototype.toLowerCase, character by character (the text is halved
\* to keep the evaluation shallow)
ToLowerCase(text) ==
    IF Len(text) = 0 THEN ""
    ELSE IF Len(text) = 1 THEN LowerOf(text)
    ELSE ToLowerCase(SubSeq(text, 1, Len(text) \div 2))
             \o ToLowerCase(SubSeq(text, (Len(text) \div 2) + 1, Len(text)))

\* the index of the first character of text that is in chars, 0 when none is
FirstIndexOf(text, chars) ==
    LET found == {i \in 1..Len(text) : CharAt(text, i) \in chars}
    IN  IF found = {} THEN 0
        ELSE CHOOSE i \in found : \A j \in found : i <= j

RECURSIVE Split(_)
\* text.split('\n')
Split(text) ==
    LET i == FirstIndexOf(text, {"\n"})
    IN  IF i = 0 THEN <<text>>
        ELSE <<SubSeq(text, 1, i - 1)>> \o Split(SubSeq(text, i + 1, Len(text)))

RECURSIVE Join(_)
\* lines.join('\n')
Join(lines) ==
    IF Len(lines) = 0 THEN ""
    ELSE IF Len(lines) = 1 THEN lines[1]
    ELSE lines[1] \o "\n" \o Join(Tail(lines))

\* line 300
Normalized(line) == ToLowerCase(Trim(line))

\* line 301: lines whose normalised form is shorter are never deduplicated
DedupMinLength == 30

RECURSIVE FilterLinesKeepLast(_, _)
FilterLinesKeepLast(lines, seen) ==
    IF Len(lines) = 0 THEN <<>>
    ELSE LET line == lines[1]
             normalized == Normalized(line)
             later == {Normalized(lines[k]) : k \in 2..Len(lines)}
         IN  IF Len(normalized) < DedupMinLength
             THEN <<line>> \o FilterLinesKeepLast(Tail(lines), seen)
             ELSE IF normalized \in later
             THEN FilterLinesKeepLast(Tail(lines), seen)
             ELSE <<line>> \o FilterLinesKeepLast(Tail(lines), seen)

RECURSIVE FilterLines(_, _)
\* lines 299-305: the filter callback over the lines, with the seen set
FilterLines(lines, seen) ==
    IF Len(lines) = 0 THEN <<>>
    ELSE LET line == lines[1]
             normalized == Normalized(line)
         IN  IF Len(normalized) < DedupMinLength
             THEN <<line>> \o FilterLines(Tail(lines), seen)
             ELSE IF normalized \in seen
             THEN FilterLines(Tail(lines), seen)
             ELSE <<line>> \o FilterLines(Tail(lines), seen \cup {normalized})

\* lines 295-307
removeDuplicateLines(text) == Join(FilterLines(Split(text), {}))

RECURSIVE RunLength(_, _)
\* the length of the run of characters of chars that text begins with
RunLength(text, chars) ==
    IF Len(text) > 0 /\ CharAt(text, 1) \in chars
    THEN 1 + RunLength(SubSeq(text, 2, Len(text)), chars)
    ELSE 0

RECURSIVE ReplaceRuns(_, _, _, _)
\* text.replace(/[chars]{min,}/g, replacement)
ReplaceRuns(text, chars, min, replacement) ==
    LET i == FirstIndexOf(text, chars)
    IN  IF i = 0 THEN text
        ELSE LET n == RunLength(SubSeq(text, i, Len(text)), chars)
                 run == SubSeq(text, i, i + n - 1)
             IN  SubSeq(text, 1, i - 1)
                     \o (IF n >= min THEN replacement ELSE run)
                     \o ReplaceRuns(SubSeq(text, i + n, Len(text)),
                                    chars, min, replacement)

\* lines 337-342: the cleaned text of what page.evaluate returned
Cleaned(text) ==
    removeDuplicateLines(
        Trim(ReplaceRuns(ReplaceRuns(text, {"\n"}, 3, "\n\n"), {" ", "\t"}, 2, " ")))

\* line 344: cleaned texts shorter than this are no content
MinContentLength == 50

(***************************************************************************)
(* URLs and extractLinks (src/script.ts:270-293). A link is a string; the  *)
(* parts of new URL(link) the code reads are computed from the string.     *)
(***************************************************************************)
\* String.prototype.startsWith
StartsWith(text, prefix) ==
    Len(text) >= Len(prefix) /\ SubSeq(text, 1, Len(prefix)) = prefix

\* new URL(link) does not throw: the string is an absolute URL, a scheme
\* followed by a colon, without spaces
ParsesAsUrl(link) ==
    /\ FirstIndexOf(link, {":"}) > 1
    /\ FirstIndexOf(link, {" ", "/", "?", "#"}) \notin 1..FirstIndexOf(link, {":"})

\* new URL(link).protocol
Protocol(link) == ToLowerCase(SubSeq(link, 1, FirstIndexOf(link, {":"})))

\* new URL(link).hostname: the authority after "//", without port, in lower
\* case; empty for a URL without authority (mailto:)
Hostname(link) ==
    LET rest == SubSeq(link, FirstIndexOf(link, {":"}) + 1, Len(link))
    IN  IF ~StartsWith(rest, "//") THEN ""
        ELSE LET authority == SubSeq(rest, 3, Len(rest))
                 end == FirstIndexOf(authority, {"/", "?", "#", ":"})
             IN  ToLowerCase(IF end = 0 THEN authority
                             ELSE SubSeq(authority, 1, end - 1))

RECURSIVE Unique(_, _)
\* [...new Set(links)]: the first occurrence of each link, in order
Unique(links, seen) ==
    IF Len(links) = 0 THEN <<>>
    ELSE IF links[1] \in seen THEN Unique(Tail(links), seen)
    ELSE <<links[1]>> \o Unique(Tail(links), seen \cup {links[1]})

\* line 288: slice(0, 20)
MaxLinks == 20

\* array.slice(0, n) for n >= 0
Slice(array, n) == SubSeq(array, 1, IF n < Len(array) THEN n ELSE Len(array))

\* lines 275-288: hrefs are the href properties of the page's a[href]
\* elements, in document order
extractLinks(hrefs, baseUrl) ==
    LET links == SelectSeq(hrefs, LAMBDA href : href /= "" /\ ~StartsWith(href, "#"))
        sameHost == SelectSeq(Unique(links, {}),
                              LAMBDA link : /\ ParsesAsUrl(link)
                                            /\ Hostname(link) = Hostname(baseUrl))
    IN  Slice(sameHost, MaxLinks)

(***************************************************************************)
(* summarizeBatch, processUrl, withBrowser (src/script.ts:149-187,         *)
(* 407-464, 489-522, 549-587, 662-697).                                    *)
(*                                                                         *)
(* bs holds the locals of the one summarizeBatch call:                     *)
(*   pc        the await the call is suspended at                          *)
(*   i, results, comparativeSummary, output    as in summarizeBatch        *)
(*   browser   "none" / "open" / "closed"; ctx tells whether withBrowser's *)
(*             ctx has been assigned                                       *)
(*   retries, outer   processUrl's counter and its retryWithBackoff call   *)
(*   text, meta       the two members of Promise.all in the attempt        *)
(*   stale     extractions still in flight whose attempt already failed    *)
(*   caller, inner    who called the model ("url" / "comparative") and the *)
(*             retryWithBackoff call inside rateLimiter.execute            *)
(*   raised    the error summarizeBatch rejected with                      *)
(* The clock is advanced by timers only: a collaborator call takes no      *)
(* time, which is the case that brings two rate-limited calls closest.     *)
(***************************************************************************)
Undefined == "<undefined>"

RateLimitMaxConcurrent == 2     \* new RateLimiter(2, 1000)
RateLimitMinDelay == 1000
DefaultMaxRetries == 3          \* options.maxRetries || 3
UrlRetryBaseDelay == 2000       \* processUrl: options.retryDelay || 2000
SummaryRetryBaseDelay == 1000   \* summarizeContent: options.retryDelay || 1000
PacingDelay == 1000             \* sleep(1000) after each URL

\* JavaScript truthiness of an optional string
Falsy(x) == x = Undefined \/ x = ""

\* an optional number of SummaryOptions that was not set
NotConfigured == -1

\* x || d for an optional number: undefined and 0 are both falsy
OrDefault(x, d) == IF x = NotConfigured \/ x = 0 THEN d ELSE x

\* lines 105-112; protocol "" stands for a string new URL() rejects
isValidUrl(url) == url.protocol = "http:" \/ url.protocol = "https:"

UrlPool ==
    { [href |-> "https://a.example/", protocol |-> "https:"],
      [href |-> "http://b.example/", protocol |-> "http:"],
      [href |-> "ftp://c.example/", protocol |-> "ftp:"] }

\* lines 671-676 and 580-586: an outcome with error set (retries 0: undefined)
ErrorResult(url, message, retries) ==
    [url |-> url.href, summary |-> "",
     metadata |-> [title |-> "", url |-> url.href],
     error |-> message, retries |-> retries]

\* lines 564-569
SuccessResult(url, summary, metadata, retries) ==
    [url |-> url.href, summary |-> summary, metadata |-> metadata,
     error |-> Undefined, retries |-> retries]

\* line 584
ErrorMessage(error) ==
    IF error.kind \in {"SummarizerError", "Error"} THEN error.message
    ELSE "Unknown error"

\* results.filter(r => !r.error), lines 688 and 690
Successful(results) == SelectSeq(results, LAMBDA r : Falsy(r.error))

\* lines 489-522: what the report shows
formatBatchOutput(results, comparative) ==
    [total |-> Len(results),
     successful |-> Len(Successful(results)),
     failed |-> Len(SelectSeq(results, LAMBDA r : ~Falsy(r.error))),
     entries |-> results,
     comparative |-> IF Falsy(comparative) THEN Undefined ELSE comparative]

NoOutput == [total |-> 0, successful |-> 0, failed |-> 0, entries |-> <<>>,
             comparative |-> Undefined]

NavigateResultClientErrorFirst(response) ==
    IF response.kind = "timeout"
    THEN SummarizerError("Page load timeout - the website took too long to respond",
                         "TIMEOUT", TRUE, 0)
    ELSE IF response.kind = "error"
    THEN SummarizerError("Failed to navigate to URL", "NAVIGATION_FAILED", TRUE, 0)
    ELSE IF response.kind = "null"
    THEN SummarizerError("No response received from URL", "NO_RESPONSE", TRUE, 0)
    ELSE IF response.status >= 500
    THEN SummarizerError("Server error", "SERVER_ERROR", TRUE, 0)
    ELSE IF response.status >= 400
    THEN SummarizerError("HTTP error", "HTTP_ERROR", FALSE, 0)
    ELSE IF response.status = 429
    THEN SummarizerError("Rate limited by server", "RATE_LIMITED", TRUE, 0)
    ELSE NoError

\* lines 189-240: the error navigate throws for what page.goto did, or NoError
NavigateResult(response) ==
    IF response.kind = "timeout"
    THEN SummarizerError("Page load timeout - the website took too long to respond",
                         "TIMEOUT", TRUE, 0)
    ELSE IF response.kind = "error"
    THEN SummarizerError("Failed to navigate to URL", "NAVIGATION_FAILED", TRUE, 0)
    ELSE IF response.kind = "null"
    THEN SummarizerError("No response received from URL", "NO_RESPONSE", TRUE, 0)
    ELSE IF response.status = 429
    THEN SummarizerError("Rate limited by server", "RATE_LIMITED", TRUE, 0)
    ELSE IF response.status >= 500
    THEN SummarizerError("Server error", "SERVER_ERROR", TRUE, 0)
    ELSE IF response.status >= 400
    THEN SummarizerError("HTTP error", "HTTP_ERROR", FALSE, 0)
    ELSE NoError

Response(status) == [kind |-> "response", status |-> status]

\* what page.goto does in the runs explored
NavResponses == {Response(200), Response(404), Response(503)}

\* lines 344-350 and 353-359: the error extractAndCleanText throws, or NoError
ExtractTextResult(page) ==
    IF page = "throws"
    THEN SummarizerError("Failed to extract text content",
                         "TEXT_EXTRACTION_FAILED", TRUE, 0)
    ELSE IF page = "sparse"
    THEN SummarizerError("No meaningful content found on the page",
                         "NO_CONTENT", FALSE, 0)
    ELSE NoError

\* lines 261-267
ExtractMetadataResult(page) ==
    IF page = "throws"
    THEN SummarizerError("Failed to extract metadata",
                         "METADATA_EXTRACTION_FAILED", TRUE, 0)
    ELSE NoError

\* what generateText does: it resolves with a text or rejects
Replied(text) == [throws |-> FALSE, text |-> text]
Rejected == [throws |-> TRUE, text |-> ""]

\* generateText in the runs explored: a summary, an empty text, a text of
\* whitespace only, a rejection
ModelReplies == {Replied("summary text"), Replied(""), Replied(" \n"), Rejected}

GenerateResultEmptyOnly(reply, message) ==
    IF reply.throws THEN PlainError("model request failed", 0)
    ELSE IF reply.text = ""
    THEN SummarizerError(message, "EMPTY_SUMMARY", TRUE, 0)
    ELSE NoError

\* lines 414-427 and 442-455: the error the model call's wrapper throws, or NoError
GenerateResult(reply, message) ==
    IF reply.throws THEN PlainError("model request failed", 0)
    ELSE IF reply.text = "" \/ Len(Trim(reply.text)) = 0
    THEN SummarizerError(message, "EMPTY_SUMMARY", TRUE, 0)
    ELSE NoError

\* the operation handed to rateLimiter.execute by the one producer of a batch run
SummaryOp == 1

World == [b |-> bs, rl |-> rl, now |-> now, h |-> hist]

CurrentUrl(w) == urls[w.b.i + 1]

\* lines 411-435 / 439-463: rateLimiter.execute(closure) up to the first await;
\* when the closure starts at once, retryWithBackoff invokes generateText
StartSummarize(w, caller, operation) ==
    LET rl2 == RLExecute(w.rl, SummaryOp, w.now)
    IN  IF SummaryOp \in rl2.active
        THEN [w EXCEPT !.rl = rl2, !.b.caller = caller, !.b.pc = "generate",
                       !.h.modelCalls = @ + 1,
                       !.b.inner = RetryInit(OrDefault(options.maxRetries, DefaultMaxRetries),
                                             OrDefault(options.retryDelay,
                                                       SummaryRetryBaseDelay),
                                             operation)]
        ELSE [w EXCEPT !.rl = rl2, !.b.caller = caller, !.b.pc = "rateLimited"]

\* lines 552-555: retryWithBackoff invokes the attempt, which awaits navigate
StartProcessUrl(w) ==
    [w EXCEPT !.b.retries = 0,
              !.b.outer = RetryInit(OrDefault(options.maxRetries, DefaultMaxRetries),
                                    OrDefault(options.retryDelay, UrlRetryBaseDelay),
                                    "Processing url"),
              !.b.pc = "navigate",
              !.h.processUrlCalls[w.b.i + 1] = @ + 1,
              !.h.navigations[w.b.i + 1] = @ + 1]

RECURSIVE BatchLoopSkipsInvalid(_)
BatchLoopSkipsInvalid(w) ==
    IF w.b.i >= Len(urls)
    THEN [w EXCEPT !.b.pc = "close", !.h.closeCalls = @ + 1]
    ELSE IF ~isValidUrl(CurrentUrl(w))
    THEN BatchLoopSkipsInvalid([w EXCEPT !.b.i = @ + 1])
    ELSE StartProcessUrl(w)

RECURSIVE BatchLoop(_)
\* lines 666-680, from the loop condition to the next await; when the loop
\* ends the callback returns and withBrowser's finally closes the browser
BatchLoop(w) ==
    IF w.b.i >= Len(urls)
    THEN [w EXCEPT !.b.pc = "close", !.h.closeCalls = @ + 1]
    ELSE IF ~isValidUrl(CurrentUrl(w))
    THEN BatchLoop([w EXCEPT
             !.b.results = Append(@, ErrorResult(CurrentUrl(w), "Invalid URL format", 0)),
             !.b.i = @ + 1])
    ELSE StartProcessUrl(w)

PushResultPacesSuccessOnly(w, result) ==
    IF Falsy(result.error)
    THEN [w EXCEPT !.b.results = Append(@, result), !.b.pc = "pace",
                   !.b.retries = 0, !.b.outer = RetryIdle, !.h.paces = @ + 1]
    ELSE BatchLoop([w EXCEPT !.b.results = Append(@, result), !.b.i = @ + 1,
                             !.b.retries = 0, !.b.outer = RetryIdle])

\* lines 680-683 and 643-646: processUrl settled (its locals are gone);
\* results.push(result); sleep(1000)
PushResult(w, result) ==
    [w EXCEPT !.b.results = Append(@, result), !.b.pc = "pace",
              !.b.retries = 0, !.b.outer = RetryIdle, !.h.paces = @ + 1]

AttemptFailedPropagates(w, error) ==
    LET outer == RetryOnFailure(w.b.outer, error)
        w1 == [w EXCEPT !.b.retries = @ + 1, !.b.outer = outer]
    IN  IF outer.pc = "sleep"
        THEN [w1 EXCEPT !.b.pc = "backoff"]
        ELSE [w1 EXCEPT !.h.escaped[w.b.i + 1] = outer.raised,
                        !.b.pc = "raised", !.b.raised = outer.raised]

\* lines 570-573, retryWithBackoff's catch, and the .catch of lines 580-586
AttemptFailed(w, error) ==
    LET outer == RetryOnFailure(w.b.outer, error)
        w1 == [w EXCEPT !.b.retries = @ + 1, !.b.outer = outer]
    IN  IF outer.pc = "sleep"
        THEN [w1 EXCEPT !.b.pc = "backoff"]
        ELSE PushResult([w1 EXCEPT !.h.escaped[w.b.i + 1] = outer.raised],
                        ErrorResult(CurrentUrl(w), ErrorMessage(outer.raised),
                                    w1.b.retries))

\* lines 564-569 and retryWithBackoff's return
AttemptSucceeded(w, summary) ==
    PushResult([w EXCEPT !.b.outer = RetryOnSuccess(@, summary)],
               SuccessResult(CurrentUrl(w), summary,
                             [title |-> "Title", url |-> CurrentUrl(w).href],
                             w.b.retries))

\* lines 693-696: the report is built and printed; saveToFileIfNeeded is awaited
Report(w, comparative) ==
    [w EXCEPT !.b.comparativeSummary = comparative,
              !.b.output = formatBatchOutput(w.b.results, comparative),
              !.b.printed = TRUE,
              !.b.pc = "save"]

ComparativeWantedOneSuccess(results) ==
    options.comparative /\ Len(Successful(results)) >= 1

\* line 688
ComparativeWanted(results) ==
    options.comparative /\ Len(Successful(results)) >= 2

\* line 690: the argument of generateComparativeSummary
ComparativeInput(results) == Successful(results)

\* lines 687-693: after withBrowser returned
AfterBrowser(w) ==
    IF ComparativeWanted(w.b.results)
    THEN StartSummarize([w EXCEPT !.h.comparativeCalls = @ + 1,
                                  !.h.comparativeInput = ComparativeInput(w.b.results)],
                        "comparative", "Comparative summary")
    ELSE Report(w, Undefined)

\* the closure handed to rateLimiter.execute settled: lines 74-80, and the
\* locals of its retryWithBackoff call are gone
SummarizeSettled(w) ==
    [w EXCEPT !.rl = RLComplete(@, SummaryOp, w.now), !.b.inner = RetryIdle,
              !.b.caller = "none"]

\* the rejection of summarizeContent / generateComparativeSummary reaches its
\* caller: processUrl's attempt (line 562) or summarizeBatch (line 690), which
\* has no handler and rejects
SummarizeFailed(w, error) ==
    IF w.b.caller = "url" THEN AttemptFailed(SummarizeSettled(w), error)
    ELSE [SummarizeSettled(w) EXCEPT !.b.pc = "raised", !.b.raised = error,
                                     !.h.comparativeFailed = TRUE]

\* the value of summarizeContent / generateComparativeSummary reaches its caller
SummarizeSucceeded(w, text) ==
    IF w.b.caller = "url" THEN AttemptSucceeded(SummarizeSettled(w), text)
    ELSE Report(SummarizeSettled(w), text)

BatchIdleState ==
    [pc |-> "idle", i |-> 0, results |-> <<>>, comparativeSummary |-> Undefined,
     output |-> NoOutput, printed |-> FALSE, saved |-> FALSE,
     browser |-> "none", ctx |-> FALSE,
     retries |-> 0, outer |-> RetryIdle, text |-> "idle", meta |-> "idle",
     stale |-> 0, caller |-> "none", inner |-> RetryIdle, raised |-> NoError]

NoHistory ==
    [launches |-> 0, closeCalls |-> 0, comparativeCalls |-> 0,
     comparativeInput |-> <<>>, comparativeFailed |-> FALSE, faults |-> 0,
     navigations |-> <<>>, processUrlCalls |-> <<>>, escaped |-> <<>>,
     modelCalls |-> 0, paces |-> 0, unbudgeted |-> FALSE]

\* the batch variables while another specification runs
BatchIdle ==
    /\ urls = <<>>
    /\ options = [maxRetries |-> 0, retryDelay |-> 0, comparative |-> FALSE]
    /\ bs = BatchIdleState
    /\ hist = NoHistory

\* the locals of summarizeWebsite / withBrowser before the call (SpecSite):
\*   pc        the await the call is suspended at
\*   browser, ctx          as in bs
\*   nav, text, meta       the three retryWithBackoff calls of lines 598-621
\*   all       the Promise.all of line 606: "idle", "pending", "resolved",
\*             "rejected"
\*   inner     the retryWithBackoff call inside summarizeContent
\*   response  what page.goto last did
\*   thrown    the error the callback threw, kept while the browser closes
\*   raised    the error summarizeWebsite rejected with
\*   hrefs     the href properties of the page's a[href] elements
\*   links     the local links (line 627)
\*   launches, closeCalls, faults, printed, saved, linksPrinted, linksSaved
\*             history; printed and linksPrinted are the console.log calls of
\*             lines 631 and 650
WebsiteIdle ==
    [url |-> [href |-> "", protocol |-> ""],
     options |-> [maxRetries |-> NotConfigured, retryDelay |-> NotConfigured,
                  followLinks |-> NotConfigured],
     hrefs |-> <<>>, links |-> <<>>, linksWarned |-> FALSE,
     linksPrinted |-> FALSE, linksSaved |-> FALSE,
     pc |-> "idle", browser |-> "none", ctx |-> FALSE,
     nav |-> RetryIdle, text |-> RetryIdle, meta |-> RetryIdle, all |-> "idle",
     inner |-> RetryIdle, response |-> [kind |-> "none", status |-> 0],
     thrown |-> NoError, raised |-> NoError,
     launches |-> 0, closeCalls |-> 0, faults |-> 0,
     printed |-> FALSE, saved |-> FALSE]

\* the text variables before any text function is called (SpecText):
\*   input         the text handed to removeDuplicateLines, and what
\*                 page.evaluate returns to extractAndCleanText
\*   pc            "new", then "deduplicated" or "extracting" / "extracted"
\*   deduplicated  what removeDuplicateLines returned
\*   cleaned       the local cleaned of extractAndCleanText (line 337)
\*   call          the retryWithBackoff call around extractAndCleanText
TextIdle ==
    [input |-> "", pc |-> "idle", deduplicated |-> "", cleaned |-> "",
     call |-> RetryIdle]

\* the document variables before a page is loaded (SpecDom):
\*   url       the URL of the page
\*   loaded    the document as the navigation loaded it (history)
\*   doc       the live document
\*   pc        "idle", "extract" (the Promise.all of lines 606-621),
\*             "extractLinks", "done" or "raised"
\*   text, meta    the two retryWithBackoff calls of lines 607-620
\*   evaluated     what the page.evaluate of extractAndCleanText last returned
\*   links     what extractLinks returned
DomIdle ==
    [url |-> "", loaded |-> [title |-> "", meta |-> [title |-> "", description |-> ""],
                             body |-> <<>>],
     doc |-> [title |-> "", meta |-> [title |-> "", description |-> ""], body |-> <<>>],
     pc |-> "idle", text |-> RetryIdle, meta |-> RetryIdle,
     evaluated |-> Undefined, links |-> <<>>]

\* the page variables while another specification runs
\* the API server before it listens (src/unnamed/part_003):
\*   browser     the module-level variable: 0 for null, else a browser's number
\*   browsers    per chromium.launch call made, in order: "launching", "open"
\*               (launched, connected), "crashed" (disconnected on its own),
\*               "closed" (by browser.close()) or "failed" (launch rejected)
\*   requests    per POST /scrape request: where its handler is, the browser
\*               it launches or uses, the response sent (0: none yet)
\*   shutdowns   per signal delivered: where the shutdown callback is, and the
\*               browser whose close() it awaits
\*   listening   server.close has not been called
\*   exited      process.exit(0) was called
ApiIdle ==
    [browser |-> 0, browsers |-> <<>>,
     requests |-> [r \in 1..MaxRequests |->
                      [pc |-> "idle", b |-> 0, failed |-> FALSE, response |-> 0]],
     shutdowns |-> [s \in 1..MaxSignals |-> [pc |-> "idle", closing |-> 0]],
     listening |-> FALSE, exited |-> FALSE]

PageIdle == ws = WebsiteIdle /\ tx = TextIdle /\ dom = DomIdle /\ api = ApiIdle

(***************************************************************************)
(* SpecRL: actions.                                                        *)
(***************************************************************************)
\* no fn was called and no promise settled
NoCalls == [o \in Ops |-> [invoked |-> 0, settled |-> <<>>]]

\* what fn of operation op returned (ok) or threw
Outcome(op, ok) == [ok |-> ok, of |-> op]

\* line 73: the history once the fn of each operation of started was called
InvokedAfter(history, started) ==
    [o \in Ops |-> IF o \in started THEN [history[o] EXCEPT !.invoked = @ + 1]
                   ELSE history[o]]

\* lines 74 and 76: the promise of operation op gets outcome
SettledWith(history, op, outcome) ==
    [history EXCEPT ![op].settled = Append(@, outcome)]

\* a producer calls rateLimiter.execute(fn); operations are numbered in call order
Execute(op) ==
    /\ opStatus[op] = "new"
    /\ \A o \in Ops : o < op => opStatus[o] /= "new"
    /\ LET s2 == RLExecute(rl, op, now)
       IN  /\ rl' = s2
           /\ starts' = StartsAfter(rl, s2, now)
           /\ calls' = InvokedAfter(calls, s2.active \ rl.active)
    /\ opStatus' = [opStatus EXCEPT ![op] = "pending"]
    /\ UNCHANGED <<now, handoffs, retryVars, batchVars, pageVars>>

TimerFire(op) ==
    /\ \E d \in rl.delaying : d.op = op /\ now >= d.wake
    /\ LET s2 == RLTimerFire(rl, op, now)
       IN  /\ rl' = s2
           /\ starts' = StartsAfter(rl, s2, now)
           /\ calls' = InvokedAfter(calls, s2.active \ rl.active)
    /\ UNCHANGED <<now, opStatus, handoffs, retryVars, batchVars, pageVars>>

CompleteRetriesFailure(op, ok) ==
    /\ op \in rl.active
    /\ LET s1 == RLComplete(rl, op, now)
           s2 == IF ok THEN s1 ELSE RLExecute(s1, op, now)
       IN  /\ rl' = s2
           /\ starts' = StartsAfter(rl, s2, now)
           /\ handoffs' = IF ok THEN handoffs
                          ELSE handoffs \cup (InFlight(s2) \ InFlight(rl))
           /\ calls' = InvokedAfter(
                          IF ok THEN SettledWith(calls, op, Outcome(op, ok)) ELSE calls,
                          s2.active \ (rl.active \ {op}))
    /\ opStatus' = [opStatus EXCEPT ![op] = IF ok THEN "resolved" ELSE "pending"]
    /\ UNCHANGED <<now, retryVars, batchVars, pageVars>>

\* fn() settles: ok = TRUE resolves (line 74), ok = FALSE rejects (line 76)
Complete(op, ok) ==
    /\ op \in rl.active
    /\ LET s2 == RLComplete(rl, op, now)
       IN  /\ rl' = s2
           /\ starts' = StartsAfter(rl, s2, now)
           /\ handoffs' = IF ok THEN handoffs
                          ELSE handoffs \cup (InFlight(s2) \ InFlight(rl))
           /\ calls' = InvokedAfter(SettledWith(calls, op, Outcome(op, ok)),
                                    s2.active \ (rl.active \ {op}))
    /\ opStatus' = [opStatus EXCEPT ![op] = IF ok THEN "resolved" ELSE "rejected"]
    /\ UNCHANGED <<now, retryVars, batchVars, pageVars>>

\* the clock advances MaxTicks times, and further while a timer is pending
Tick ==
    /\ now < MaxTime \/ \E d \in rl.delaying : d.wake > now
    /\ now' = now + 1
    /\ UNCHANGED <<rl, opStatus, starts, handoffs, calls, retryVars, batchVars, pageVars>>

InitRL ==
    /\ \E mc \in 1..MaxConcurrentBound, md \in 1..MaxMinDelay :
          rl = RateLimiter(mc, md)
    /\ now = StartTime
    /\ opStatus = [o \in Ops |-> "new"]
    /\ starts = <<>>
    /\ handoffs = {}
    /\ calls = NoCalls
    /\ rb = RetryIdle
    /\ opLog = <<>>
    /\ waited = 0
    /\ BatchIdle
    /\ PageIdle

NextRL ==
    \/ \E op \in Ops : Execute(op)
    \/ \E op \in Ops : TimerFire(op)
    \/ \E op \in Ops, ok \in BOOLEAN : Complete(op, ok)
    \/ Tick

SpecRL == InitRL /\ [][NextRL]_vars

\* every timer fires, the clock goes on, and every fn() that was called settles
FairRL ==
    /\ WF_vars(Tick)
    /\ \A op \in Ops : WF_vars(TimerFire(op))
    /\ \A op \in Ops : WF_vars(\E ok \in BOOLEAN : Complete(op, ok))

SpecRLFair == SpecRL /\ FairRL

(***************************************************************************)
(* Properties of the RateLimiter, checked under SpecRL.                    *)
(***************************************************************************)
\* C1: the operations that have been dispatched and have not yet completed
\* never number more than maxConcurrent, whatever the producers enqueue.
C1_InFlightBounded == Cardinality(InFlight(rl)) <= rl.maxConcurrent

\* the limit binds: maxConcurrent operations in flight while another one queues
C1_LimitReached ==
    /\ rl.maxConcurrent = 2
    /\ Cardinality(InFlight(rl)) = 2
    /\ Len(rl.queue) > 0

\* C2: any two consecutively started operations start at least minDelay apart.
C2_StartsMinDelayApart ==
    \A i \in 1..(Len(starts) - 1) : starts[i + 1] - starts[i] >= rl.minDelay

\* the operation has been dequeued by processQueue
Dispatched(op) == op \in InFlight(rl) \/ opStatus[op] \in {"resolved", "rejected"}

\* C12: when a running operation completes, by success or by failure alike,
\* running is decremented and the head of the queue (if any) is dispatched in
\* the same step; hence every enqueued operation is eventually dispatched
\* when every running operation eventually completes: from some point on no
\* operation is left waiting in the queue.
C12_CompletionDispatchesNext ==
    /\ [][\A op \in Ops :
            (op \in rl.active /\ opStatus'[op] \in {"resolved", "rejected"}) =>
                /\ op \notin InFlight(rl')
                /\ IF Len(rl.queue) > 0
                   THEN /\ Head(rl.queue) \in InFlight(rl')
                        /\ rl'.queue = Tail(rl.queue)
                        /\ rl'.running = rl.running
                   ELSE rl'.running = rl.running - 1]_vars
    /\ <>[](\A op \in Ops : opStatus[op] = "pending" => Dispatched(op))

\* an operation failed and the operation queued behind it is now running
C12_DispatchedAfterFailure ==
    \E op \in handoffs : op \in rl.active

\* fn of the operation has been invoked (line 73)
Started(op) == op \in rl.active \/ opStatus[op] \in {"resolved", "rejected"}

\* C13: operations begin running in the order they were enqueued: when the fn
\* of an operation has been invoked, the fn of every operation enqueued
\* before it has been invoked too (operations are numbered in enqueue order).
C13_StartedInEnqueueOrder ==
    \A a \in Ops, b \in Ops : (a < b /\ Started(b)) => Started(a)

\* C31: execute(op) calls op's fn exactly once, and not again after a
\* failure; the promise it returned is settled exactly once, with what that
\* fn returned or threw, and no promise gets the outcome of another
\* operation's fn.
C31_InvokedOnceSettledOnce ==
    \A op \in Ops :
        LET call == calls[op]
        IN  /\ call.invoked <= 1
            /\ call.invoked = 1 <=> Started(op)
            /\ Len(call.settled) <= 1
            /\ Len(call.settled) = 1 <=> opStatus[op] \in {"resolved", "rejected"}
            /\ \A k \in 1..Len(call.settled) :
                  /\ call.settled[k] = Outcome(op, opStatus[op] = "resolved")
                  /\ call.invoked = 1
            /\ opStatus[op] = "rejected" =>
                  /\ op \notin InFlight(rl)
                  /\ \A k \in 1..Len(rl.queue) : rl.queue[k] /= op

\* every operation has settled, the first with a failure, the others with
\* their results
C31_FailureThenSuccesses ==
    /\ opStatus[1] = "rejected"
    /\ \A op \in Ops \ {1} : opStatus[op] = "resolved"
    /\ \A op \in Ops : calls[op].invoked = 1

(***************************************************************************)
(* SpecRetry: one retryWithBackoff call; what fn() does at each            *)
(* invocation is an input.                                                 *)
(***************************************************************************)
Values == {1, 2}

\* what the k-th invocation of an operation may throw
OpErrors(k) ==
    { SummarizerError("HTTP error 404", "HTTP_ERROR", FALSE, k),
      SummarizerError("Server error 503", "SERVER_ERROR", TRUE, k),
      PlainError("socket hang up", k) }

Success(v) == [ok |-> TRUE, value |-> v, error |-> NoError]
Failure(e) == [ok |-> FALSE, value |-> 0, error |-> e]

OpSucceeds(v) ==
    /\ rb.pc = "call"
    /\ rb' = RetryOnSuccess(rb, v)
    /\ opLog' = Append(opLog, Success(v))
    /\ UNCHANGED <<waited, rlVars, batchVars, pageVars>>

OpFails(e) ==
    /\ rb.pc = "call"
    /\ rb' = RetryOnFailure(rb, e)
    /\ opLog' = Append(opLog, Failure(e))
    /\ UNCHANGED <<waited, rlVars, batchVars, pageVars>>

\* the timer of sleep(delay) fires, delay + late after it was set
SleepDone(late) ==
    /\ rb.pc = "sleep"
    /\ rb' = RetryAfterSleep(rb)
    /\ waited' = waited + rb.delay + late
    /\ UNCHANGED <<opLog, rlVars, batchVars, pageVars>>

InitRetry ==
    /\ \E n \in 0..MaxRetriesBound, d \in 1..MaxBaseDelay : rb = RetryInit(n, d, "Operation")
    /\ opLog = <<>>
    /\ waited = 0
    /\ rl = RateLimiter(1, 1)
    /\ now = StartTime
    /\ opStatus = [o \in Ops |-> "new"]
    /\ starts = <<>>
    /\ handoffs = {}
    /\ calls = NoCalls
    /\ BatchIdle
    /\ PageIdle

NextRetry ==
    \/ \E v \in Values : OpSucceeds(v)
    \/ \E e \in OpErrors(rb.calls) : OpFails(e)
    \/ \E late \in 0..MaxLate : SleepDone(late)

SpecRetry == InitRetry /\ [][NextRetry]_vars

(***************************************************************************)
(* Properties of retryWithBackoff, checked under SpecRetry.                *)
(***************************************************************************)
RetryableFailure(o) == ~o.ok /\ ~IsNonRetryable(o.error)

NonRetryableFailure(o) == ~o.ok /\ IsNonRetryable(o.error)

\* C3: an operation that fails retryably at every attempt is invoked exactly
\* maxRetries + 1 times, and the call then raises MAX_RETRIES_EXCEEDED.
C3_ExhaustedAfterAllAttempts ==
    (\A i \in 1..Len(opLog) : RetryableFailure(opLog[i])) =>
        /\ rb.calls <= rb.maxRetries + 1
        /\ Len(opLog) <= rb.maxRetries => rb.pc \in {"call", "sleep"}
        /\ Len(opLog) > rb.maxRetries =>
              /\ rb.calls = rb.maxRetries + 1
              /\ Len(opLog) = rb.maxRetries + 1
              /\ rb.pc = "raised"
              /\ rb.raised.code = "MAX_RETRIES_EXCEEDED"
              /\ rb.raised.attempts = rb.maxRetries + 1

C3_Exhausted ==
    /\ rb.maxRetries = 2
    /\ rb.pc = "raised"
    /\ rb.raised.code = "MAX_RETRIES_EXCEEDED"
    /\ rb.calls = 3

\* C37: retryWithBackoff sets no backoff timer after its final attempt: it
\* never sleeps once attempt index maxRetries has failed, and a call that
\* raised MAX_RETRIES_EXCEEDED after maxRetries + 1 failed attempts has
\* waited exactly maxRetries times (not at all when maxRetries = 0).
C37_NoWaitAfterFinalAttempt ==
    /\ Len(rb.waits) <= rb.maxRetries
    /\ rb.pc = "sleep" => Len(opLog) <= rb.maxRetries
    /\ (rb.pc = "raised" /\ rb.raised.code = "MAX_RETRIES_EXCEEDED") =>
          /\ Len(opLog) = rb.maxRetries + 1
          /\ \A i \in 1..Len(opLog) : ~opLog[i].ok
          /\ Len(rb.waits) = rb.maxRetries
          /\ waited >= 0 /\ (rb.maxRetries = 0 => waited = 0)

\* a single failing attempt with maxRetries = 0: raised without a wait
C37_SingleAttemptNoWait ==
    /\ rb.maxRetries = 0
    /\ rb.pc = "raised"
    /\ rb.raised.code = "MAX_RETRIES_EXCEEDED"
    /\ Len(opLog) = 1
    /\ rb.waits = <<>>

\* C4: a failure marked non-retryable ends the call at once: the operation is
\* not invoked again, nothing is slept after it, and the error raised is that
\* very error.
C4_NonRetryableRaisedAtOnce ==
    \A i \in 1..Len(opLog) :
        NonRetryableFailure(opLog[i]) =>
            /\ i = Len(opLog)
            /\ rb.calls = i
            /\ rb.pc = "raised"
            /\ rb.raised = opLog[i].error
            /\ Len(rb.waits) = i - 1

C4_FatalOnSecondAttempt ==
    /\ rb.maxRetries = 3
    /\ Len(opLog) = 2
    /\ NonRetryableFailure(opLog[2])
    /\ rb.pc = "raised"

\* C5: the wait after failed attempt i is exactly baseDelay * 2^i, and every
\* invocation after the first is preceded by exactly one such wait.
C5_ExponentialWaits ==
    /\ \A j \in 1..Len(rb.waits) : rb.waits[j] = rb.baseDelay * (2 ^ (j - 1))
    /\ Len(rb.waits) = (rb.calls - 1) + (IF rb.pc = "sleep" THEN 1 ELSE 0)
    /\ rb.pc = "sleep" => rb.delay = rb.waits[Len(rb.waits)]

C5_ThreeWaits == rb.baseDelay = 2 /\ rb.waits = <<2, 4, 8>>

\* C6: k retryable failures followed by a success: k + 1 invocations, the
\* success value is returned, and at least baseDelay * (2^k - 1) was waited.
C6_SuccessAfterFailures ==
    rb.pc = "returned" =>
        LET k == Len(opLog) - 1
        IN  /\ k >= 0 /\ k <= rb.maxRetries
            /\ \A i \in 1..k : RetryableFailure(opLog[i])
            /\ opLog[k + 1].ok
            /\ rb.calls = k + 1
            /\ rb.value = opLog[k + 1].value
            /\ waited >= rb.baseDelay * ((2 ^ k) - 1)

\* baseDelay 1, maxRetries 2, two failures then a success: 3 invocations, 3 waited
C6_TwoFailuresThenSuccess ==
    /\ rb.maxRetries = 2 /\ rb.baseDelay = 1
    /\ rb.pc = "returned"
    /\ rb.calls = 3
    /\ waited = 3

(***************************************************************************)
(* SpecBatch: one summarizeBatch(urls, options) call. Each action is the   *)
(* settlement of the await the call is suspended at, with everything that  *)
(* runs up to the next await.                                              *)
(***************************************************************************)
Apply(w) ==
    /\ bs' = w.b
    /\ rl' = w.rl
    /\ now' = w.now
    /\ hist' = w.h
    /\ UNCHANGED <<urls, options, opStatus, starts, handoffs, calls, retryVars, pageVars>>

\* a collaborator may fail while the run's budget of failures lasts; a run
\* started without a budget may fail at every call
MayFail == hist.unbudgeted \/ hist.faults < MaxFaults

Fault(w) == [w EXCEPT !.h.faults = @ + 1]

\* lines 155-161, 171-172 and 178-186: createBrowserContext threw; ctx is
\* still null, so the finally block closes nothing; summarizeBatch rejects
CreateContextFailed(w) ==
    [w EXCEPT !.b.pc = "raised",
              !.b.raised = SummarizerError("Failed to launch browser",
                                           "BROWSER_LAUNCH_FAILED", FALSE, 0)]

\* line 151: puppeteer.launch settled
LaunchDone(ok) ==
    /\ bs.pc = "launch"
    /\ ok \/ MayFail
    /\ Apply(IF ok
             THEN [World EXCEPT !.b.browser = "open", !.b.pc = "newPage",
                                !.h.launches = @ + 1]
             ELSE CreateContextFailed(Fault(World)))

\* line 152: browser.newPage settled
NewPageDone(ok) ==
    /\ bs.pc = "newPage"
    /\ ok \/ MayFail
    /\ Apply(IF ok
             THEN [World EXCEPT !.b.pc = "setUserAgent"]
             ELSE CreateContextFailed(Fault(World)))

\* lines 153-154, 169-170 and 666: page.setUserAgent settled; the loop starts
SetUserAgentDone(ok) ==
    /\ bs.pc = "setUserAgent"
    /\ ok \/ MayFail
    /\ Apply(IF ok
             THEN BatchLoop([World EXCEPT !.b.ctx = TRUE])
             ELSE CreateContextFailed(Fault(World)))

\* line 555: navigate settled; on success Promise.all starts both extractions
NavigateDone(response) ==
    /\ bs.pc = "navigate"
    /\ LET error == NavigateResult(response)
       IN  /\ error = NoError \/ MayFail
           /\ Apply(IF error = NoError
                    THEN [World EXCEPT !.b.pc = "extract", !.b.text = "inflight",
                                       !.b.meta = "inflight"]
                    ELSE AttemptFailed(Fault(World), error))

\* lines 557-562: one member of Promise.all settled. The first rejection
\* rejects Promise.all while the other member may still be in flight; when
\* both have resolved summarizeContent is called
ExtractionFailed(w, error, other) ==
    AttemptFailed([w EXCEPT !.b.text = "idle", !.b.meta = "idle",
                            !.b.stale = IF other = "inflight" THEN @ + 1 ELSE @],
                  error)

ExtractTextDone(page) ==
    /\ bs.pc = "extract"
    /\ bs.text = "inflight"
    /\ LET error == ExtractTextResult(page)
       IN  /\ error = NoError \/ MayFail
           /\ Apply(IF error /= NoError
                    THEN ExtractionFailed(Fault(World), error, bs.meta)
                    ELSE IF bs.meta = "ok"
                    THEN StartSummarize([World EXCEPT !.b.text = "idle",
                                                      !.b.meta = "idle"],
                                        "url", "Summarization")
                    ELSE [World EXCEPT !.b.text = "ok"])

ExtractMetadataDone(page) ==
    /\ bs.pc = "extract"
    /\ bs.meta = "inflight"
    /\ LET error == ExtractMetadataResult(page)
       IN  /\ error = NoError \/ MayFail
           /\ Apply(IF error /= NoError
                    THEN ExtractionFailed(Fault(World), error, bs.text)
                    ELSE IF bs.text = "ok"
                    THEN StartSummarize([World EXCEPT !.b.text = "idle",
                                                      !.b.meta = "idle"],
                                        "url", "Summarization")
                    ELSE [World EXCEPT !.b.meta = "ok"])

\* an extraction whose attempt has already failed settles; nobody awaits it
StaleExtractionDone ==
    /\ bs.stale > 0
    /\ Apply([World EXCEPT !.b.stale = @ - 1])

\* lines 414-427 / 442-455 under retryWithBackoff, inside the rate limiter's
\* closure: generateText settled
GenerateDone(reply) ==
    /\ bs.pc = "generate"
    /\ LET message == IF bs.caller = "url"
                      THEN "AI model returned empty response"
                      ELSE "AI model returned empty comparative summary"
           error == GenerateResult(reply, message)
       IN  /\ error = NoError \/ MayFail
           /\ Apply(
                IF error = NoError
                THEN LET inner == RetryOnSuccess(bs.inner, reply.text)
                     IN  SummarizeSucceeded([World EXCEPT !.b.inner = inner],
                                            inner.value)
                ELSE LET inner == RetryOnFailure(bs.inner, error)
                         w == [Fault(World) EXCEPT !.b.inner = inner]
                     IN  IF inner.pc = "sleep"
                         THEN [w EXCEPT !.b.pc = "innerSleep"]
                         ELSE SummarizeFailed(w, inner.raised))

\* line 137 in the summarization's retryWithBackoff: the backoff timer fired
InnerSleepDone ==
    /\ bs.pc = "innerSleep"
    /\ Apply([World EXCEPT !.now = @ + bs.inner.delay,
                           !.b.inner = RetryAfterSleep(@),
                           !.b.pc = "generate",
                           !.h.modelCalls = @ + 1])

\* line 137 in processUrl's retryWithBackoff: the attempt is run again
BackoffDone ==
    /\ bs.pc = "backoff"
    /\ Apply([World EXCEPT !.now = @ + bs.outer.delay,
                           !.b.outer = RetryAfterSleep(@),
                           !.b.pc = "navigate",
                           !.h.navigations[bs.i + 1] = @ + 1])

\* line 683: the pacing timer fired; i++ and the loop goes on
PaceDone ==
    /\ bs.pc = "pace"
    /\ ws.pc = "idle"
    /\ Apply(BatchLoop([World EXCEPT !.now = @ + PacingDelay, !.b.i = @ + 1]))

\* lines 179-185: browser.close settled (a failure is only logged), and
\* withBrowser returns to summarizeBatch
CloseDone(ok) ==
    /\ bs.pc = "close"
    /\ ok \/ MayFail
    /\ Apply(AfterBrowser(IF ok
                          THEN [World EXCEPT !.b.browser = "closed"]
                          ELSE Fault(World)))

\* lines 524-547: saveToFileIfNeeded; options.saveToFile is read only here
SaveDone(saveToFile, ok) ==
    /\ bs.pc = "save"
    /\ saveToFile \/ ok
    /\ ok \/ MayFail
    /\ Apply(IF ~saveToFile
             THEN [World EXCEPT !.b.pc = "done"]
             ELSE IF ok
             THEN [World EXCEPT !.b.pc = "done", !.b.saved = TRUE]
             ELSE [Fault(World) EXCEPT
                      !.b.pc = "raised",
                      !.b.raised = SummarizerError("Failed to save file",
                                                   "FILE_SAVE_FAILED", FALSE, 0)])

\* the option values explored: not configured (0) or a small configured value
ConfiguredMaxRetries == {0, 1}
ConfiguredRetryDelays == {0}

SeqsUpTo(S, n) == UNION {[1..k -> S] : k \in 0..n}

\* The two valid URLs of UrlPool are interchangeable: only the lists in which
\* b.example does not come before the first a.example are explored.
FirstUseOrder(list) ==
    \A j \in 1..Len(list) :
        list[j].href = "http://b.example/" =>
            \E k \in 1..(j - 1) : list[k].href = "https://a.example/"

InitBatch ==
    /\ urls \in {list \in SeqsUpTo(UrlPool, MaxUrls) : FirstUseOrder(list)}
    /\ options \in [maxRetries : ConfiguredMaxRetries,
                    retryDelay : ConfiguredRetryDelays,
                    comparative : BOOLEAN]
    /\ bs = [BatchIdleState EXCEPT !.pc = "launch"]
    /\ hist = [NoHistory EXCEPT !.navigations = [j \in 1..Len(urls) |-> 0],
                                !.processUrlCalls = [j \in 1..Len(urls) |-> 0],
                                !.escaped = [j \in 1..Len(urls) |-> NoError]]
    /\ rl = RateLimiter(RateLimitMaxConcurrent, RateLimitMinDelay)
    /\ now = RateLimitMinDelay
    /\ opStatus = [o \in Ops |-> "new"]
    /\ starts = <<>>
    /\ handoffs = {}
    /\ calls = NoCalls
    /\ rb = RetryIdle
    /\ opLog = <<>>
    /\ waited = 0
    /\ PageIdle

NextBatch ==
    \/ \E ok \in BOOLEAN : LaunchDone(ok)
    \/ \E ok \in BOOLEAN : NewPageDone(ok)
    \/ \E ok \in BOOLEAN : SetUserAgentDone(ok)
    \/ \E response \in NavResponses : NavigateDone(response)
    \/ \E page \in {"content", "sparse", "throws"} : ExtractTextDone(page)
    \/ \E page \in {"content", "throws"} : ExtractMetadataDone(page)
    \/ StaleExtractionDone
    \/ \E reply \in ModelReplies : GenerateDone(reply)
    \/ InnerSleepDone
    \/ BackoffDone
    \/ PaceDone
    \/ \E ok \in BOOLEAN : CloseDone(ok)
    \/ \E saveToFile \in BOOLEAN, ok \in BOOLEAN : SaveDone(saveToFile, ok)

SpecBatch == InitBatch /\ [][NextBatch]_vars

\* every collaborator call settles and every timer fires: the promise the
\* call is suspended at is eventually settled
FairBatch ==
    /\ WF_vars(\E ok \in BOOLEAN : LaunchDone(ok))
    /\ WF_vars(\E ok \in BOOLEAN : NewPageDone(ok))
    /\ WF_vars(\E ok \in BOOLEAN : SetUserAgentDone(ok))
    /\ WF_vars(\E response \in NavResponses : NavigateDone(response))
    /\ WF_vars(\E page \in {"content", "sparse", "throws"} : ExtractTextDone(page))
    /\ WF_vars(\E page \in {"content", "throws"} : ExtractMetadataDone(page))
    /\ WF_vars(\E reply \in ModelReplies : GenerateDone(reply))
    /\ WF_vars(InnerSleepDone)
    /\ WF_vars(BackoffDone)
    /\ WF_vars(PaceDone)
    /\ WF_vars(\E ok \in BOOLEAN : CloseDone(ok))
    /\ WF_vars(\E saveToFile \in BOOLEAN, ok \in BOOLEAN : SaveDone(saveToFile, ok))

\* the maxRetries values of the runs explored without a budget of failures
FairMaxRetries == {1, 2}

\* a summarizeBatch run in which any collaborator call may fail, any number
\* of times
InitBatchFair ==
    /\ urls \in {list \in SeqsUpTo(UrlPool, MaxFairUrls) : FirstUseOrder(list)}
    /\ options \in [maxRetries : FairMaxRetries,
                    retryDelay : ConfiguredRetryDelays,
                    comparative : BOOLEAN]
    /\ bs = [BatchIdleState EXCEPT !.pc = "launch"]
    /\ hist = [NoHistory EXCEPT !.navigations = [j \in 1..Len(urls) |-> 0],
                                !.processUrlCalls = [j \in 1..Len(urls) |-> 0],
                                !.escaped = [j \in 1..Len(urls) |-> NoError],
                                !.unbudgeted = TRUE]
    /\ rl = RateLimiter(RateLimitMaxConcurrent, RateLimitMinDelay)
    /\ now = RateLimitMinDelay
    /\ opStatus = [o \in Ops |-> "new"]
    /\ starts = <<>>
    /\ handoffs = {}
    /\ calls = NoCalls
    /\ rb = RetryIdle
    /\ opLog = <<>>
    /\ waited = 0
    /\ PageIdle

SpecBatchFair == InitBatchFair /\ [][NextBatch]_vars /\ FairBatch

(***************************************************************************)
(* Properties of summarizeBatch, checked under SpecBatch.                  *)
(***************************************************************************)
\* the call is inside the for loop of lines 666-684
InLoop ==
    \/ bs.pc \in {"navigate", "extract", "backoff", "pace"}
    \/ bs.pc \in {"generate", "innerSleep"} /\ bs.caller = "url"

\* the loop has run to its end
LoopDone == bs.ctx /\ ~InLoop

\* In a batch run two calls of rateLimiter.execute are always at least the
\* pacing delay apart, so the closure never has to wait: no state with
\* pc = "rateLimited" is reachable and at most one closure runs.
BatchNeverRateLimited ==
    /\ bs.pc /= "rateLimited"
    /\ rl.delaying = {}
    /\ rl.running <= 1

\* C7: the result list holds one outcome per input URL, in input order,
\* whatever retries each URL needed; a URL that is not valid http/https
\* gets an outcome with error set, and processUrl (hence navigation and every
\* other browser or model call) is never invoked for it.
C7_OneOutcomePerUrlInOrder ==
    /\ Len(bs.results) = (IF bs.pc = "pace" THEN bs.i + 1 ELSE bs.i)
    /\ LoopDone => Len(bs.results) = Len(urls)
    /\ \A j \in 1..Len(bs.results) : bs.results[j].url = urls[j].href
    /\ \A j \in 1..Len(urls) :
          ~isValidUrl(urls[j]) =>
              /\ hist.navigations[j] = 0
              /\ hist.processUrlCalls[j] = 0
              /\ j <= Len(bs.results) => ~Falsy(bs.results[j].error)

\* [valid, invalid, valid]: three outcomes, the third after a retry
C7_ValidInvalidValid ==
    /\ Len(urls) = 3
    /\ isValidUrl(urls[1]) /\ ~isValidUrl(urls[2]) /\ isValidUrl(urls[3])
    /\ bs.pc = "done"
    /\ Falsy(bs.results[1].error)
    /\ bs.results[2].error = "Invalid URL format"
    /\ Falsy(bs.results[3].error) /\ bs.results[3].retries = 1

\* C8: processUrl never raises: an error escaping a URL's retry sequence
\* becomes that URL's outcome with error set, the loop goes on to the later
\* URLs, and processUrl is called exactly once for each valid URL.
C8_FailureIsolated ==
    /\ \A j \in 1..Len(urls) :
          hist.processUrlCalls[j] =
              IF isValidUrl(urls[j])
                 /\ (j <= bs.i \/ (j = bs.i + 1 /\ InLoop))
              THEN 1 ELSE 0
    /\ \A j \in 1..Len(urls) :
          hist.escaped[j] /= NoError =>
              /\ j <= Len(bs.results)
              /\ bs.results[j].error = hist.escaped[j].message
              /\ ~Falsy(bs.results[j].error)
    /\ (bs.pc = "raised" /\ bs.ctx) => bs.i = Len(urls)

\* the first URL exhausted its retries, the second one was still summarized
C8_LaterUrlProcessedAfterFailure ==
    /\ Len(urls) = 2
    /\ bs.pc = "done"
    /\ hist.escaped[1].code = "MAX_RETRIES_EXCEEDED"
    /\ Falsy(bs.results[2].error)

\* the decision of line 688 has been taken
ComparativeDecided == LoopDone /\ bs.pc /= "close"

\* C9: the comparative synthesis is invoked iff comparative was requested and
\* at least 2 outcomes have no error; at most once, after all URLs were
\* processed, and over the error-free outcomes only, in input order.
C9_ComparativeIffTwoSuccesses ==
    /\ hist.comparativeCalls <= 1
    /\ hist.comparativeCalls = 1 =>
          /\ ComparativeDecided
          /\ Len(bs.results) = Len(urls)
          /\ hist.comparativeInput = Successful(bs.results)
          /\ \A k \in 1..Len(hist.comparativeInput) :
                Falsy(hist.comparativeInput[k].error)
    /\ ComparativeDecided =>
          (hist.comparativeCalls = 1 <=>
              /\ options.comparative
              /\ Cardinality({j \in 1..Len(bs.results) :
                                 Falsy(bs.results[j].error)}) >= 2)

\* two successes and one failure: the synthesis ran over the two successes
C9_SynthesisOverTwoOfThree ==
    /\ Len(urls) = 3
    /\ bs.pc = "done"
    /\ hist.comparativeCalls = 1
    /\ Len(hist.comparativeInput) = 2
    /\ bs.output.comparative = "summary text"

\* C10: when the comparative synthesis fails, the run still delivers the
\* per-URL outcomes it collected to the report.
C10_OutcomesReportedAfterSynthesisFailure ==
    (hist.comparativeFailed /\ bs.pc \in {"done", "raised"}) =>
        /\ bs.printed
        /\ bs.output.entries = bs.results

\* summarizeBatch has completed or raised
BatchFinished == bs.pc \in {"done", "raised"}

\* the maxRetries every retry sequence of the run is given
EffectiveMaxRetries == OrDefault(options.maxRetries, DefaultMaxRetries)

C22_UnitRetriedUntilSuccessOrExhausted ==
    \A j \in 1..Len(bs.results) :
        isValidUrl(urls[j]) =>
            \/ Falsy(bs.results[j].error)
            \/ hist.escaped[j].code \in {"HTTP_ERROR", "NO_CONTENT"}
            \/ hist.navigations[j] = EffectiveMaxRetries + 1

\* C35: while an extraction of an earlier attempt is still in flight on the
\* shared page (its attempt failed through the other extraction), no
\* navigation and no extraction of a later attempt is in flight.
C35_OneAttemptOnThePage ==
    bs.stale > 0 => bs.pc \notin {"navigate", "extract"}

\* C25: an outcome carries a retry count (retries is not undefined, 0 here)
\* only when the URL's sequence was attempted more than once; on a success
\* the count is the number of failed attempts that preceded it.
C25_RetryCountOnlyAfterRetries ==
    \A j \in 1..Len(bs.results) :
        /\ bs.results[j].retries > 0 => hist.navigations[j] > 1
        /\ (Falsy(bs.results[j].error) /\ bs.results[j].retries > 0) =>
               bs.results[j].retries = hist.navigations[j] - 1

\* the failure carries retryable = true
CarriesRetryable(error) == error.kind = "SummarizerError" /\ error.retryable

\* the retryWithBackoff call r re-attempts after its last failure: it sleeps
\* before the next attempt, or that attempt is under way
Reattempting(r) == r.pc = "sleep" \/ (r.pc = "call" /\ r.calls > 1)

\* C14: no retry sequence of the pipeline re-attempts after a failure that
\* does not carry retryable = true, be it a SummarizerError with
\* retryable = false or an error of a collaborator that has no such flag.
C14_OnlyRetryableReattempted ==
    /\ Reattempting(bs.outer) => CarriesRetryable(bs.outer.lastError)
    /\ Reattempting(bs.inner) => CarriesRetryable(bs.inner.lastError)

\* the step in which the last attempt of summarizeContent's retry sequence
\* fails while processUrl's sequence awaits it
InnerExhausts ==
    /\ bs.pc = "generate" /\ bs.caller = "url"
    /\ bs.inner.attempt = bs.inner.maxRetries
    /\ hist'.faults > hist.faults

\* C15: the error raised after exhaustion is non-retryable and its message
\* embeds the attempt count maxRetries + 1 and the last underlying error's
\* message; when summarizeContent's sequence is exhausted, the enclosing
\* sequence of processUrl makes no further attempt: no navigation is started
\* and that error becomes the URL's outcome.
C15_TerminalErrorEndsEnclosingSequence ==
    [][InnerExhausts =>
          LET e == hist'.escaped[bs.i + 1]
          IN  /\ e.kind = "SummarizerError" /\ e.code = "MAX_RETRIES_EXCEEDED"
              /\ ~e.retryable
              /\ e.attempts = bs.inner.maxRetries + 1
              /\ e.cause \in {"AI model returned empty response", "model request failed"}
              /\ e.message = "Summarization failed after "
                                \o ToString(bs.inner.maxRetries + 1)
                                \o " attempts: " \o e.cause
              /\ hist'.navigations = hist.navigations
              /\ bs'.pc = "pace"
              /\ Len(bs'.results) = bs.i + 1
              /\ bs'.results[bs.i + 1].error = e.message]_vars

\* maxRetries = 1: both summarization attempts of a URL failed, and the URL
\* was navigated to once only
C15_SummarizationExhausted ==
    /\ options.maxRetries = 1
    /\ \E j \in 1..Len(bs.results) :
          /\ bs.results[j].error =
                "Summarization failed after 2 attempts: AI model returned empty response"
          /\ hist.navigations[j] = 1

\* C19: every outcome in the result list has either error set to a
\* non-empty string and an empty summary, or no error and a summary that is
\* neither empty nor whitespace only; never both, never neither.
C19_OutcomeFailedOrSuccess ==
    \A j \in 1..Len(bs.results) :
        LET r == bs.results[j]
        IN  \/ r.error /= Undefined /\ r.error /= "" /\ r.summary = ""
            \/ r.error = Undefined /\ r.summary /= "" /\ Trim(r.summary) /= ""

\* a run with an outcome of each origin: a summary, a failure of processUrl
\* and an invalid URL
C19_MixedOutcomes ==
    /\ bs.pc = "done"
    /\ \E j \in 1..Len(bs.results) : bs.results[j].summary = "summary text"
    /\ \E j \in 1..Len(bs.results) : bs.results[j].error = "HTTP error"
    /\ \E j \in 1..Len(bs.results) : bs.results[j].error = "Invalid URL format"

(***************************************************************************)
(* SpecSite: one summarizeWebsite(url, options) call                       *)
(* (src/script.ts:149-187, 589-660). The three retryWithBackoff calls of   *)
(* the callback are the records ws.nav, ws.text and ws.meta; the two       *)
(* extractions run concurrently under Promise.all. In the runs of SpecSite  *)
(* options.followLinks is not set, so links is [] and lines 627-655 are    *)
(* skipped, and the clock is not advanced: the one rateLimiter.execute     *)
(* call of the run finds lastRequestTime = 0 and never waits. The runs of  *)
(* SpecFollow set followLinks and go through the loop of lines 633-656.    *)
(***************************************************************************)
\* s: the locals of summarizeWebsite; b, h, urls: those of the processUrl
\* calls of its link-following loop (lines 636-647) and their history
SiteWorld == [s |-> ws, rl |-> rl, now |-> now, b |-> bs, h |-> hist, urls |-> urls]

ApplySite(w) ==
    /\ ws' = w.s
    /\ rl' = w.rl
    /\ now' = w.now
    /\ bs' = w.b
    /\ hist' = w.h
    /\ urls' = w.urls
    /\ UNCHANGED <<options, opStatus, starts, handoffs, calls, retryVars, tx, dom, api>>

SiteMayFail == ws.faults < MaxFaults

SiteFault(w) == [w EXCEPT !.s.faults = @ + 1]

\* the options object of the retryWithBackoff calls of lines 598-621 and 428-432
SiteRetry(w, baseDelay, operation) ==
    RetryInit(OrDefault(w.s.options.maxRetries, DefaultMaxRetries),
              OrDefault(w.s.options.retryDelay, baseDelay), operation)

\* lines 155-161 and 171-186: createBrowserContext threw; ctx is still null,
\* so the finally block closes nothing; summarizeWebsite rejects
SiteCreateContextFailed(w) ==
    [w EXCEPT !.s.pc = "raised",
              !.s.raised = SummarizerError("Failed to launch browser",
                                           "BROWSER_LAUNCH_FAILED", FALSE, 0)]

\* lines 174-179: what withBrowser's catch throws for an error of the callback
BrowserOperationError(error) ==
    IF error.kind = "SummarizerError" THEN error
    ELSE SummarizerError("Browser operation failed",
                         "BROWSER_OPERATION_FAILED", FALSE, 0)

\* lines 173-182: the callback threw; finally awaits ctx.browser.close()
CallbackThrew(w, error) ==
    [w EXCEPT !.s.thrown = BrowserOperationError(error),
              !.s.pc = "close", !.s.closeCalls = @ + 1]

\* lines 172 and 180-182: the callback returned; finally awaits close()
CallbackReturned(w) ==
    [w EXCEPT !.s.pc = "close", !.s.closeCalls = @ + 1]

\* options.followLinks is truthy (lines 627 and 633)
FollowsLinks(w) == OrDefault(w.s.options.followLinks, 0) /= 0

\* line 629 and 411-435: summarizeContent calls rateLimiter.execute, whose
\* closure starts retryWithBackoff at once
SiteStartSummarize(w) ==
    LET rl2 == RLExecute(w.rl, SummaryOp, w.now)
    IN  IF SummaryOp \in rl2.active
        THEN [w EXCEPT !.rl = rl2, !.s.pc = "generate",
                       !.s.inner = SiteRetry(w, SummaryRetryBaseDelay, "Summarization")]
        ELSE [w EXCEPT !.rl = rl2, !.s.pc = "rateLimited"]

MemberSettledIgnoresMetadataFailure(w) ==
    IF w.s.all /= "pending" THEN w
    ELSE IF w.s.text.pc = "raised"
    THEN CallbackThrew([w EXCEPT !.s.all = "rejected"], w.s.text.raised)
    ELSE IF w.s.text.pc = "returned" /\ w.s.meta.pc \in {"returned", "raised"}
    THEN IF FollowsLinks(w)
         THEN [w EXCEPT !.s.all = "resolved", !.s.pc = "extractLinks"]
         ELSE SiteStartSummarize([w EXCEPT !.s.all = "resolved"])
    ELSE w

\* line 606: a member of Promise.all settled. The first rejection rejects
\* Promise.all, and the callback throws while the other member goes on;
\* a member settling after that is ignored
MemberSettled(w) ==
    IF w.s.all /= "pending" THEN w
    ELSE IF w.s.text.pc = "raised"
    THEN CallbackThrew([w EXCEPT !.s.all = "rejected"], w.s.text.raised)
    ELSE IF w.s.meta.pc = "raised"
    THEN CallbackThrew([w EXCEPT !.s.all = "rejected"], w.s.meta.raised)
    ELSE IF w.s.text.pc = "returned" /\ w.s.meta.pc = "returned"
    THEN IF FollowsLinks(w)
         THEN [w EXCEPT !.s.all = "resolved", !.s.pc = "extractLinks"]
         ELSE SiteStartSummarize([w EXCEPT !.s.all = "resolved"])
    ELSE w

RECURSIVE LinkLoopStopsAtFailure(_)
LinkLoopStopsAtFailure(w) ==
    IF w.b.i >= Len(w.urls)
       \/ (w.b.i > 0 /\ ~Falsy(w.b.results[w.b.i].error))
    THEN [w EXCEPT !.b.pc = "done", !.s.linksPrinted = TRUE, !.s.pc = "saveLinks"]
    ELSE StartProcessUrl(w)

\* lines 639-643 and 649-652, from the loop condition to the next await: the
\* next link is handed to processUrl, or the loop ends, the outcomes of the
\* links are printed and the file of the links is saved when asked for
LinkLoop(w) ==
    IF w.b.i >= Len(w.urls)
    THEN [w EXCEPT !.b.pc = "done", !.s.linksPrinted = TRUE, !.s.pc = "saveLinks"]
    ELSE StartProcessUrl(w)

\* line 637: links.slice(0, options.followLinks), each link as the url
\* argument of processUrl
LinksToProcess(w) ==
    LET list == Slice(w.s.links, w.s.options.followLinks)
    IN  [k \in 1..Len(list) |-> [href |-> list[k], protocol |-> Protocol(list[k])]]

\* lines 633-643: the loop over linksToProcess starts; linkResults = [] and
\* the history of the processUrl calls is empty
StartLinks(w) ==
    LET list == LinksToProcess(w)
    IN  LinkLoop([w EXCEPT
            !.s.pc = "links",
            !.urls = list,
            !.b = BatchIdleState,
            !.h = [NoHistory EXCEPT !.navigations = [j \in 1..Len(list) |-> 0],
                                    !.processUrlCalls = [j \in 1..Len(list) |-> 0],
                                    !.escaped = [j \in 1..Len(list) |-> NoError],
                                    !.faults = w.s.faults]])

\* the extractions go on until the process exits
Running == ws.pc \notin {"idle", "returned", "raised"}

\* line 151: puppeteer.launch settled
SiteLaunchDone(ok) ==
    /\ ws.pc = "launch"
    /\ ok \/ SiteMayFail
    /\ ApplySite(IF ok
                 THEN [SiteWorld EXCEPT !.s.browser = "open", !.s.pc = "newPage",
                                        !.s.launches = @ + 1]
                 ELSE SiteCreateContextFailed(SiteFault(SiteWorld)))

\* line 152: browser.newPage settled
SiteNewPageDone(ok) ==
    /\ ws.pc = "newPage"
    /\ ok \/ SiteMayFail
    /\ ApplySite(IF ok
                 THEN [SiteWorld EXCEPT !.s.pc = "setUserAgent"]
                 ELSE SiteCreateContextFailed(SiteFault(SiteWorld)))

\* lines 153-154, 171-172 and 598-604: page.setUserAgent settled; the
\* callback starts the navigation's retryWithBackoff
SiteSetUserAgentDone(ok) ==
    /\ ws.pc = "setUserAgent"
    /\ ok \/ SiteMayFail
    /\ ApplySite(IF ok
                 THEN [SiteWorld EXCEPT
                          !.s.ctx = TRUE, !.s.pc = "navigate",
                          !.s.nav = SiteRetry(SiteWorld, UrlRetryBaseDelay, "Navigating")]
                 ELSE SiteCreateContextFailed(SiteFault(SiteWorld)))

\* lines 598-621: navigate settled; on success Promise.all starts the two
\* extractions, each under its own retryWithBackoff
SiteNavigateDone(response) ==
    /\ ws.pc = "navigate"
    /\ LET error == NavigateResult(response)
       IN  /\ error = NoError \/ SiteMayFail
           /\ ApplySite(
                IF error = NoError
                THEN [SiteWorld EXCEPT
                         !.s.response = response,
                         !.s.nav = RetryOnSuccess(@, 0),
                         !.s.pc = "extract", !.s.all = "pending",
                         !.s.text = SiteRetry(SiteWorld, SummaryRetryBaseDelay,
                                              "Extracting text"),
                         !.s.meta = SiteRetry(SiteWorld, SummaryRetryBaseDelay,
                                              "Extracting metadata")]
                ELSE LET nav == RetryOnFailure(ws.nav, error)
                         w == [SiteFault(SiteWorld) EXCEPT !.s.response = response,
                                                           !.s.nav = nav]
                     IN  IF nav.pc = "sleep"
                         THEN [w EXCEPT !.s.pc = "navSleep"]
                         ELSE CallbackThrew(w, nav.raised))

\* line 137 in the navigation's retryWithBackoff
SiteNavSleepDone ==
    /\ ws.pc = "navSleep"
    /\ ApplySite([SiteWorld EXCEPT !.s.nav = RetryAfterSleep(@), !.s.pc = "navigate"])

SiteExtractTextDoneRerunsMetadata(page) ==
    /\ Running
    /\ ws.text.pc = "call"
    /\ LET error == ExtractTextResult(page)
       IN  /\ error = NoError \/ SiteMayFail
           /\ ApplySite(MemberSettled(
                IF error = NoError
                THEN [SiteWorld EXCEPT !.s.text = RetryOnSuccess(@, 0)]
                ELSE [SiteFault(SiteWorld) EXCEPT
                         !.s.text = RetryOnFailure(@, error),
                         !.s.meta = IF @.pc = "returned"
                                    THEN [@ EXCEPT !.pc = "call", !.calls = @ + 1]
                                    ELSE @]))

\* lines 607-613: extractAndCleanText settled
SiteExtractTextDone(page) ==
    /\ Running
    /\ ws.text.pc = "call"
    /\ LET error == ExtractTextResult(page)
       IN  /\ error = NoError \/ SiteMayFail
           /\ ApplySite(MemberSettled(
                IF error = NoError
                THEN [SiteWorld EXCEPT !.s.text = RetryOnSuccess(@, 0)]
                ELSE [SiteFault(SiteWorld) EXCEPT !.s.text = RetryOnFailure(@, error)]))

SiteTextSleepDone ==
    /\ Running
    /\ ws.text.pc = "sleep"
    /\ ApplySite([SiteWorld EXCEPT !.s.text = RetryAfterSleep(@)])

\* lines 614-620: extractMetadata settled
SiteExtractMetadataDone(page) ==
    /\ Running
    /\ ws.meta.pc = "call"
    /\ LET error == ExtractMetadataResult(page)
       IN  /\ error = NoError \/ SiteMayFail
           /\ ApplySite(MemberSettled(
                IF error = NoError
                THEN [SiteWorld EXCEPT !.s.meta = RetryOnSuccess(@, 0)]
                ELSE [SiteFault(SiteWorld) EXCEPT !.s.meta = RetryOnFailure(@, error)]))

SiteMetaSleepDone ==
    /\ Running
    /\ ws.meta.pc = "sleep"
    /\ ApplySite([SiteWorld EXCEPT !.s.meta = RetryAfterSleep(@)])

\* lines 74-80: the closure handed to rateLimiter.execute settled
SiteSummarizeSettled(w) == [w EXCEPT !.rl = RLComplete(@, SummaryOp, w.now)]

\* lines 414-427 and 629-658: generateText settled; on success the output
\* is printed, then the links are followed or saveToFileIfNeeded is awaited
SiteGenerateDone(reply) ==
    /\ ws.pc = "generate"
    /\ LET error == GenerateResult(reply, "AI model returned empty response")
       IN  /\ error = NoError \/ SiteMayFail
           /\ ApplySite(
                IF error = NoError
                THEN LET w == [SiteSummarizeSettled(SiteWorld) EXCEPT
                                  !.s.inner = RetryOnSuccess(@, reply.text),
                                  !.s.printed = TRUE]
                     IN  IF FollowsLinks(w) /\ Len(w.s.links) > 0
                         THEN StartLinks(w)
                         ELSE [w EXCEPT !.s.pc = "save"]
                ELSE LET inner == RetryOnFailure(ws.inner, error)
                         w == [SiteFault(SiteWorld) EXCEPT !.s.inner = inner]
                     IN  IF inner.pc = "sleep"
                         THEN [w EXCEPT !.s.pc = "innerSleep"]
                         ELSE CallbackThrew(SiteSummarizeSettled(w), inner.raised))

SiteInnerSleepDone ==
    /\ ws.pc = "innerSleep"
    /\ ApplySite([SiteWorld EXCEPT !.s.inner = RetryAfterSleep(@), !.s.pc = "generate"])

\* line 627: the page.evaluate of extractLinks settled; a failure is only
\* logged (line 290, linksWarned) and links is []; then summarizeContent is called (line 629)
SiteExtractLinksDone(ok) ==
    /\ ws.pc = "extractLinks"
    /\ ok \/ SiteMayFail
    /\ ApplySite(SiteStartSummarize(
            IF ok
            THEN [SiteWorld EXCEPT !.s.links = extractLinks(ws.hrefs, ws.url.href)]
            ELSE [SiteFault(SiteWorld) EXCEPT !.s.links = <<>>,
                                              !.s.linksWarned = TRUE]))

\* line 69 in the closure of a processUrl attempt's summarizeContent: the
\* spacing timer fired; lines 72-73 and 412-416
RateLimitTimerDone ==
    /\ bs.pc = "rateLimited"
    /\ LET d == CHOOSE d \in rl.delaying : d.op = SummaryOp
           t == IF d.wake > now THEN d.wake ELSE now
       IN  Apply([World EXCEPT
                     !.now = t,
                     !.rl = RLTimerFire(@, SummaryOp, t),
                     !.b.pc = "generate",
                     !.h.modelCalls = @ + 1,
                     !.b.inner = RetryInit(OrDefault(options.maxRetries, DefaultMaxRetries),
                                           OrDefault(options.retryDelay,
                                                     SummaryRetryBaseDelay),
                                           "Summarization")])

\* line 646: the pacing timer fired; i++ and the loop goes on
LinkPaceDone ==
    /\ ws.pc = "links"
    /\ bs.pc = "pace"
    /\ ApplySite(LinkLoop([SiteWorld EXCEPT !.now = @ + PacingDelay, !.b.i = @ + 1]))

\* lines 652-658: the saveToFileIfNeeded of the links' file settled, when
\* options.saveToFile is set; then that of the summary is awaited. When it
\* is not set, neither call does anything and the callback returns
SiteSaveLinksDone(saveToFile, ok) ==
    /\ ws.pc = "saveLinks"
    /\ saveToFile \/ ok
    /\ ok \/ SiteMayFail
    /\ ApplySite(IF ~saveToFile
                 THEN CallbackReturned(SiteWorld)
                 ELSE IF ok
                 THEN [SiteWorld EXCEPT !.s.linksSaved = TRUE, !.s.pc = "save"]
                 ELSE CallbackThrew(SiteFault(SiteWorld),
                                    SummarizerError("Failed to save file",
                                                    "FILE_SAVE_FAILED", FALSE, 0)))

\* lines 524-547 and 658: saveToFileIfNeeded settled
SiteSaveDone(saveToFile, ok) ==
    /\ ws.pc = "save"
    /\ ws.linksSaved => saveToFile
    /\ saveToFile \/ ok
    /\ ok \/ SiteMayFail
    /\ ApplySite(IF ~saveToFile
                 THEN CallbackReturned(SiteWorld)
                 ELSE IF ok
                 THEN CallbackReturned([SiteWorld EXCEPT !.s.saved = TRUE])
                 ELSE CallbackThrew(SiteFault(SiteWorld),
                                    SummarizerError("Failed to save file",
                                                    "FILE_SAVE_FAILED", FALSE, 0)))

SiteCloseDoneRaisesCloseFailure(ok) ==
    /\ ws.pc = "close"
    /\ ok \/ SiteMayFail
    /\ ApplySite(IF ok
                 THEN IF ws.thrown = NoError
                      THEN [SiteWorld EXCEPT !.s.browser = "closed", !.s.pc = "returned"]
                      ELSE [SiteWorld EXCEPT !.s.browser = "closed", !.s.pc = "raised",
                                             !.s.raised = ws.thrown]
                 ELSE [SiteFault(SiteWorld) EXCEPT
                          !.s.pc = "raised",
                          !.s.raised = BrowserOperationError(
                                           PlainError("Failed to close browser", 0))])

\* lines 180-185: browser.close settled (a failure is only logged);
\* withBrowser returns the callback's value or throws what the catch threw
SiteCloseDone(ok) ==
    /\ ws.pc = "close"
    /\ ok \/ SiteMayFail
    /\ LET w == IF ok THEN [SiteWorld EXCEPT !.s.browser = "closed"]
                ELSE SiteFault(SiteWorld)
       IN  ApplySite(IF ws.thrown = NoError
                     THEN [w EXCEPT !.s.pc = "returned"]
                     ELSE [w EXCEPT !.s.pc = "raised", !.s.raised = ws.thrown])

\* what page.goto does in the runs explored
SiteNavResponses ==
    { [kind |-> "timeout", status |-> 0], [kind |-> "error", status |-> 0],
      [kind |-> "null", status |-> 0] }
    \cup { Response(status) : status \in {200, 304, 399, 400, 404, 428, 429, 430,
                                          499, 500, 503} }

\* the maxRetries values explored: not set, or set by --max-retries
SiteMaxRetries == {NotConfigured, 0, 1, 2}

\* lines 589-597: summarizeWebsite up to its first await
InitSite ==
    /\ \E url \in UrlPool, n \in SiteMaxRetries :
          LET s == [WebsiteIdle EXCEPT
                       !.url = url,
                       !.options = [maxRetries |-> n, retryDelay |-> NotConfigured,
                                    followLinks |-> NotConfigured]]
          IN  ws = IF isValidUrl(url)
                   THEN [s EXCEPT !.pc = "launch"]
                   ELSE [s EXCEPT !.pc = "raised",
                                  !.raised = SummarizerError("Invalid URL format",
                                                             "INVALID_URL", FALSE, 0)]
    /\ tx = TextIdle
    /\ dom = DomIdle
    /\ api = ApiIdle
    /\ rl = RateLimiter(RateLimitMaxConcurrent, RateLimitMinDelay)
    /\ now = RateLimitMinDelay
    /\ opStatus = [o \in Ops |-> "new"]
    /\ starts = <<>>
    /\ handoffs = {}
    /\ calls = NoCalls
    /\ rb = RetryIdle
    /\ opLog = <<>>
    /\ waited = 0
    /\ BatchIdle

NextSite ==
    \/ \E ok \in BOOLEAN : SiteLaunchDone(ok)
    \/ \E ok \in BOOLEAN : SiteNewPageDone(ok)
    \/ \E ok \in BOOLEAN : SiteSetUserAgentDone(ok)
    \/ \E response \in SiteNavResponses : SiteNavigateDone(response)
    \/ SiteNavSleepDone
    \/ \E page \in {"content", "sparse", "throws"} : SiteExtractTextDone(page)
    \/ SiteTextSleepDone
    \/ \E page \in {"content", "throws"} : SiteExtractMetadataDone(page)
    \/ SiteMetaSleepDone
    \/ \E reply \in ModelReplies : SiteGenerateDone(reply)
    \/ SiteInnerSleepDone
    \/ \E saveToFile \in BOOLEAN, ok \in BOOLEAN : SiteSaveDone(saveToFile, ok)
    \/ \E ok \in BOOLEAN : SiteCloseDone(ok)

SpecSite == InitSite /\ [][NextSite]_vars

(***************************************************************************)
(* SpecFollow: one summarizeWebsite(url, options) call with                *)
(* options.followLinks set (lines 627-656). The links are followed by      *)
(* processUrl, whose locals are in bs as in a batch run, with urls the     *)
(* list linksToProcess; the failures injected into the run, before and     *)
(* inside the loop, share one budget.                                      *)
(***************************************************************************)
MaxFollow == 2            \* options.followLinks ranges over 1..MaxFollow

\* the maxRetries values of the runs explored
FollowMaxRetries == {1}

\* a page with more distinct same-host links than extractLinks returns
ManyHrefs == [k \in 1..(MaxLinks + 2) |-> "https://a.example/page" \o ToString(k)]

\* the href properties of the a[href] elements of the pages explored
HrefLists ==
    { <<>>,
      <<"https://a.example/one", "https://other.example/", "http://b.example/one",
        "https://a.example/one", "https://A.example/#top", "mailto:me@a.example",
        "http://b.example/two", "https://a.example/two">>,
      ManyHrefs }

InitFollow ==
    /\ \E url \in UrlPool, n \in FollowMaxRetries, k \in 1..MaxFollow,
         hrefs \in HrefLists :
          /\ LET s == [WebsiteIdle EXCEPT
                          !.url = url, !.hrefs = hrefs,
                          !.options = [maxRetries |-> n, retryDelay |-> NotConfigured,
                                       followLinks |-> k]]
             IN  ws = IF isValidUrl(url)
                      THEN [s EXCEPT !.pc = "launch"]
                      ELSE [s EXCEPT !.pc = "raised",
                                     !.raised = SummarizerError("Invalid URL format",
                                                                "INVALID_URL", FALSE, 0)]
          /\ options = [maxRetries |-> n, retryDelay |-> 0, comparative |-> FALSE]
    /\ urls = <<>>
    /\ bs = BatchIdleState
    /\ hist = NoHistory
    /\ tx = TextIdle
    /\ dom = DomIdle
    /\ api = ApiIdle
    /\ rl = RateLimiter(RateLimitMaxConcurrent, RateLimitMinDelay)
    /\ now = RateLimitMinDelay
    /\ opStatus = [o \in Ops |-> "new"]
    /\ starts = <<>>
    /\ handoffs = {}
    /\ calls = NoCalls
    /\ rb = RetryIdle
    /\ opLog = <<>>
    /\ waited = 0

\* the steps of lines 627-656 that summarizeWebsite takes itself
NextLinks ==
    \/ \E ok \in BOOLEAN : SiteExtractLinksDone(ok)
    \/ RateLimitTimerDone
    \/ LinkPaceDone
    \/ \E saveToFile \in BOOLEAN, ok \in BOOLEAN : SiteSaveLinksDone(saveToFile, ok)

\* the steps of a processUrl call
NextProcessUrl ==
    \/ \E response \in NavResponses : NavigateDone(response)
    \/ \E page \in {"content", "sparse", "throws"} : ExtractTextDone(page)
    \/ \E page \in {"content", "throws"} : ExtractMetadataDone(page)
    \/ StaleExtractionDone
    \/ \E reply \in ModelReplies : GenerateDone(reply)
    \/ InnerSleepDone
    \/ BackoffDone

NextFollow == NextSite \/ NextLinks \/ NextProcessUrl

SpecFollow == InitFollow /\ [][NextFollow]_vars

\* withBrowser has settled and the close it awaited had failed
CloseFailed ==
    /\ ws.pc \in {"returned", "raised"}
    /\ ws.closeCalls = 1
    /\ ws.browser = "open"

\* C32: when browser.close fails, withBrowser still returns if the callback
\* returned, and raises the callback's own error (as the catch rethrows it:
\* a SummarizerError as it is) if the callback threw; the close failure is
\* never what it raises.
C32_CloseFailureOnlyLogged ==
    CloseFailed =>
        /\ ws.thrown = NoError => (ws.pc = "returned" /\ ws.raised = NoError)
        /\ ws.thrown /= NoError =>
              /\ ws.pc = "raised"
              /\ ws.raised = ws.thrown
              /\ \/ \E r \in {ws.nav, ws.text, ws.meta, ws.inner} :
                        r.pc = "raised" /\ ws.raised = BrowserOperationError(r.raised)
                 \/ ws.raised.code = "FILE_SAVE_FAILED"

\* the navigation failed for good, then close failed: the navigation's
\* error was raised
C32_CloseFailedAfterNavigationError ==
    /\ CloseFailed
    /\ ws.pc = "raised"
    /\ ws.nav.pc = "raised"
    /\ ws.raised = ws.nav.raised

\* C34: once close has been called on the browser, no operation on its
\* page is in flight or waiting for a backoff retry: the navigation and both
\* extractions have returned or raised.
C34_NoPageOperationAtClose ==
    ws.closeCalls > 0 =>
        \A r \in {ws.nav, ws.text, ws.meta} : r.pc \notin {"call", "sleep"}

\* the retry sequences of the primary URL that have raised
SiteRaised == {r \in {ws.nav, ws.text, ws.meta, ws.inner} : r.pc = "raised"}

\* C26: a URL that is not valid http/https makes summarizeWebsite raise the
\* non-retryable INVALID_URL before any browser is launched or navigation
\* attempted; when the navigation, an extraction or the summarization
\* fails non-retryably or exhausts its retries, the callback throws that
\* error, summarizeWebsite raises it once close has been called on the
\* browser and never returns normally, and no summary is printed, no link
\* followed and no file saved.
C26_SingleUrlFailurePropagates ==
    /\ ~isValidUrl(ws.url) =>
          /\ ws.pc = "raised"
          /\ ws.raised.code = "INVALID_URL" /\ IsNonRetryable(ws.raised)
          /\ ws.launches = 0 /\ ws.nav.pc = "idle"
    /\ SiteRaised /= {} =>
          /\ ws.pc \in {"close", "raised"}
          /\ ws.thrown \in {r.raised : r \in SiteRaised}
          /\ IsNonRetryable(ws.thrown)
          /\ ws.pc = "raised" => (ws.raised = ws.thrown /\ ws.closeCalls = 1)
          /\ ~ws.printed /\ ~ws.saved /\ ~ws.linksPrinted /\ ~ws.linksSaved
          /\ urls = <<>> /\ bs.pc = "idle"
          /\ (ws.inner.pc /= "raised") => ws.inner.pc = "idle"

\* links were to be followed, and text extraction failed twice: the run
\* raised after closing the browser
C26_ExtractionExhaustedBeforeLinks ==
    /\ FollowsLinks([s |-> ws])
    /\ ws.pc = "raised"
    /\ ws.raised.code = "MAX_RETRIES_EXCEEDED"
    /\ ws.raised = ws.text.raised
    /\ ws.text.calls = 2
    /\ ws.browser = "closed"

\* the place of the first a[href] element of the primary page whose href is
\* link (0: no such element)
FirstAnchor(link) ==
    IF \A k \in 1..Len(ws.hrefs) : ws.hrefs[k] /= link THEN 0
    ELSE CHOOSE k \in 1..Len(ws.hrefs) :
            /\ ws.hrefs[k] = link
            /\ \A m \in 1..(k - 1) : ws.hrefs[m] /= link

\* the links found on the primary page whose host is the primary URL's
SameHostLinks ==
    LET host == Hostname(ws.url.href)
    IN  {ws.hrefs[k] : k \in {m \in 1..Len(ws.hrefs) :
            /\ ParsesAsUrl(ws.hrefs[m])
            /\ Hostname(ws.hrefs[m]) = host}}

\* the link loop was entered
LinkFollowingStarted ==
    \/ ws.pc \in {"links", "saveLinks"}
    \/ ws.linksPrinted
    \/ urls /= <<>>
    \/ bs.pc /= "idle"

\* the link loop was left
LinkFollowingEnded == ws.linksPrinted

\* the list of discovered links holds the same-host links of the primary
\* page once each, in the order of their first anchors: all of them, or the
\* first MaxLinks; nothing when the discovery failed
DiscoveredLinks ==
    LET L == ws.links
        sameHost == SameHostLinks
        anchor == [j \in 1..Len(L) |-> FirstAnchor(L[j])]
    IN  IF ws.linksWarned THEN L = <<>>
        ELSE /\ Len(L) <= MaxLinks
             /\ \A j \in 1..Len(L) : L[j] \in sameHost
             /\ \A j \in 1..(Len(L) - 1) : anchor[j] < anchor[j + 1]
             /\ \A link \in sameHost :
                   (\A j \in 1..Len(L) : L[j] /= link) =>
                       /\ Len(L) = MaxLinks
                       /\ FirstAnchor(link) > anchor[MaxLinks]

\* the links handed to processUrl are the first min(k, |L|) of the list L,
\* once each and in order, on the page the run opened, after the primary
\* summary was printed; when the loop is left each has an outcome
FollowedInOrder ==
    LET L == ws.links
        k == ws.options.followLinks
    IN  /\ LinkFollowingStarted =>
              /\ ws.printed /\ ws.inner.pc = "returned"
              /\ Len(urls) = (IF k < Len(L) THEN k ELSE Len(L))
              /\ \A j \in 1..Len(urls) : urls[j].href = L[j]
              /\ hist.launches = 0 /\ ws.launches = 1
              /\ ws.pc = "links" => (ws.browser = "open" /\ ws.closeCalls = 0)
              /\ bs.pc /= "raised"
        /\ \A j \in 1..Len(urls) :
              /\ hist.processUrlCalls[j] <= 1
              /\ hist.processUrlCalls[j] = 1 <=>
                    (j <= Len(bs.results) \/ (j = bs.i + 1
                                               /\ bs.pc \notin {"idle", "done"}))
        /\ \A j \in 1..Len(bs.results) : bs.results[j].url = urls[j].href
        /\ Len(bs.results) <= Len(urls)
        /\ LinkFollowingEnded => Len(bs.results) = Len(urls)

\* C27: link-following starts only after the primary summary was printed;
\* the list L of discovered links, fixed from the discovery on, holds the
\* same-host links of the page once each, in the order of their first
\* anchors, and not more than 20 of them (the first 20); the links processed
\* are the first min(k, |L|) of L, each handed to processUrl once, in order,
\* on the page the run opened, and at the end every one of them has an
\* outcome, failed or not.
C27_FollowsFirstLinksInOrder ==
    /\ []FollowedInOrder
    /\ []((ws.pc = "generate" /\ ~ws.printed) => DiscoveredLinks)
    /\ [][ws.pc /= "extractLinks" => ws'.links = ws.links]_vars

\* two of twenty discovered links followed: the first failed, the second
\* was summarized
C27_SecondLinkAfterFailedFirst ==
    /\ ws.pc = "returned"
    /\ Len(ws.hrefs) > MaxLinks /\ Len(ws.links) = MaxLinks
    /\ Len(bs.results) = 2
    /\ ~Falsy(bs.results[1].error)
    /\ Falsy(bs.results[2].error)

(***************************************************************************)
(* SpecLoops: the two loops that call processUrl, that of summarizeBatch   *)
(* (lines 666-684) and that of summarizeWebsite's link following (lines    *)
(* 639-647): a run is a summarizeBatch run or a summarizeWebsite run with  *)
(* options.followLinks set.                                                *)
(***************************************************************************)
\* a summarizeBatch run without comparative synthesis, with the maxRetries
\* of the link-following runs
InitLoopsBatch ==
    /\ urls \in {list \in SeqsUpTo(UrlPool, MaxUrls) : FirstUseOrder(list)}
    /\ options \in [maxRetries : FollowMaxRetries,
                    retryDelay : ConfiguredRetryDelays,
                    comparative : {FALSE}]
    /\ bs = [BatchIdleState EXCEPT !.pc = "launch"]
    /\ hist = [NoHistory EXCEPT !.navigations = [j \in 1..Len(urls) |-> 0],
                                !.processUrlCalls = [j \in 1..Len(urls) |-> 0],
                                !.escaped = [j \in 1..Len(urls) |-> NoError]]
    /\ rl = RateLimiter(RateLimitMaxConcurrent, RateLimitMinDelay)
    /\ now = RateLimitMinDelay
    /\ opStatus = [o \in Ops |-> "new"]
    /\ starts = <<>>
    /\ handoffs = {}
    /\ calls = NoCalls
    /\ rb = RetryIdle
    /\ opLog = <<>>
    /\ waited = 0
    /\ PageIdle

InitLoops == InitLoopsBatch \/ InitFollow

NextLoops == NextBatch \/ NextSite \/ NextLinks

SpecLoops == InitLoops /\ [][NextLoops]_vars

\* the outcomes appended so far for which processUrl was called
Processed == {j \in 1..Len(bs.results) : hist.processUrlCalls[j] = 1}

\* processUrl is called for a URL only when the outcomes of all the URLs
\* before it have been appended
OneUrlAtATime ==
    \A j \in 1..Len(urls) :
        hist.processUrlCalls[j] > 0 =>
            /\ Len(bs.results) >= j - 1
            /\ hist.processUrlCalls[j] = 1

\* C24 as stated: URLs are processed one at a time and the pacing delay of
\* 1000 ms is performed after every URL of the list, whatever its outcome.
C24_PacedAfterEveryUrl ==
    /\ OneUrlAtATime
    /\ hist.paces = Len(bs.results)

\* C24 amended: URLs are processed one at a time and the pacing delay of
\* 1000 ms is performed after every URL handed to processUrl, whether its
\* outcome is a success or a failure: after every valid URL of a batch and
\* after every followed link. A URL of a batch that is not valid http/https
\* gets its outcome and the loop goes on to the next URL without delay.
C24_PacedAfterEveryProcessedUrl ==
    /\ [](OneUrlAtATime)
    /\ [](hist.paces = Cardinality(Processed))
    /\ [](\A j \in 1..Len(bs.results) :
             hist.processUrlCalls[j] = 1 <=> (ws.pc /= "idle" \/ isValidUrl(urls[j])))
    /\ [][(bs.pc = "pace" /\ bs'.pc /= "pace") => now' = now + 1000]_vars

\* a batch whose first URL failed and whose second is not valid: one pacing
\* delay for two outcomes
C24_PacedAfterFailureNotAfterInvalid ==
    /\ ws.pc = "idle"
    /\ Len(bs.results) = 2
    /\ hist.escaped[1] /= NoError
    /\ ~isValidUrl(urls[2])
    /\ hist.paces = 1
    /\ bs.pc = "done"

(***************************************************************************)
(* Properties of summarizeWebsite / withBrowser, checked under SpecSite.   *)
(***************************************************************************)
\* withBrowser has returned or raised
Exited == ws.pc \in {"returned", "raised"}

\* C11: the browser is launched at most once and, whenever it was launched,
\* close is called on it exactly once before withBrowser returns or raises:
\* on normal return, when the callback fails, and when newPage or
\* setUserAgent fails after the launch.
C11_LaunchedBrowserClosedOnce ==
    /\ ws.launches <= 1
    /\ ws.closeCalls <= ws.launches
    /\ (Exited /\ ws.launches = 1) => ws.closeCalls = 1

\* C23: in summarizeWebsite the two extractions start only after the
\* navigation's retry sequence has returned, and each of the three sequences
\* re-runs its own operation only: a step in which text extraction fails or
\* is invoked again leaves the navigation's and the metadata extraction's
\* sequences as they were, and symmetrically for metadata extraction.
C23_SubStepsRetriedIndependently ==
    /\ []((ws.text.pc /= "idle" \/ ws.meta.pc /= "idle") =>
             (ws.nav.pc = "returned" /\ ws.text.pc /= "idle" /\ ws.meta.pc /= "idle"))
    /\ [][/\ (ws.text.pc /= "idle" /\ ws'.text /= ws.text) =>
                 (ws'.nav = ws.nav /\ ws'.meta = ws.meta)
          /\ (ws.meta.pc /= "idle" /\ ws'.meta /= ws.meta) =>
                 (ws'.nav = ws.nav /\ ws'.text = ws.text)]_vars

\* text extraction failed once and succeeded at its second invocation,
\* after one navigation and one metadata extraction
C23_TextExtractedAtSecondAttempt ==
    /\ ws.text.pc = "returned" /\ ws.text.calls = 2
    /\ ws.meta.pc = "returned" /\ ws.meta.calls = 1
    /\ ws.nav.calls = 1

\* the retry sequences summarizeWebsite has started
SiteSequences == {r \in {ws.nav, ws.text, ws.meta, ws.inner} : r.pc /= "idle"}

\* C20: every retry sequence of the run has maxRetries equal to the
\* configured value n, or 3 when none was configured, and makes at most
\* maxRetries + 1 attempts; with n = 0 that is one attempt and no retry.
C20_SequencesUseConfiguredMaxRetries ==
    \A r \in SiteSequences :
        /\ r.maxRetries = IF ws.options.maxRetries = NotConfigured THEN 3
                          ELSE ws.options.maxRetries
        /\ r.calls <= r.maxRetries + 1
        /\ ws.options.maxRetries = 0 => (r.calls = 1 /\ r.pc /= "sleep")

\* C18: navigate classifies what page.goto did: status 429, a status of 500
\* or more, a navigation timeout and an absent response each raise a
\* retryable error; a status in 400..499 other than 429 raises a
\* non-retryable error; a status below 400 raises nothing.
C18_NavigateClassifies ==
    ws.response.kind /= "none" =>
        LET status == ws.response.status
            threw == ws.nav.pc /= "returned"
            error == ws.nav.lastError
        IN  /\ (ws.response.kind = "response" /\ status < 400) => ~threw
            /\ (\/ ws.response.kind \in {"timeout", "null"}
                \/ ws.response.kind = "response" /\ (status = 429 \/ status >= 500)) =>
                   /\ threw
                   /\ error.kind = "SummarizerError" /\ error.retryable
            /\ (ws.response.kind = "response" /\ status \in 400..499 /\ status /= 429) =>
                   /\ threw
                   /\ error.kind = "SummarizerError" /\ ~error.retryable
                   /\ ws.nav.raised = error

\* an answer 429 is being retried
C18_RateLimitedRetried ==
    /\ ws.response = Response(429)
    /\ ws.pc = "navSleep"
    /\ ws.nav.lastError.code = "RATE_LIMITED"

ExtractAndCleanTextNoContentRetryable(evaluated) ==
    IF ~evaluated.ok
    THEN [error |-> SummarizerError("Failed to extract text content",
                                    "TEXT_EXTRACTION_FAILED", TRUE, 0),
          cleaned |-> "", value |-> ""]
    ELSE LET cleaned == Cleaned(evaluated.text)
         IN  IF cleaned = "" \/ Len(cleaned) < MinContentLength
             THEN [error |-> SummarizerError("No meaningful content found on the page",
                                             "NO_CONTENT", TRUE, 0),
                   cleaned |-> cleaned, value |-> ""]
             ELSE [error |-> NoError, cleaned |-> cleaned, value |-> cleaned]

\* lines 309-361: extractAndCleanText, given what page.evaluate did
\* (evaluated.ok: it returned evaluated.text; else it threw)
extractAndCleanText(evaluated) ==
    IF ~evaluated.ok
    THEN [error |-> SummarizerError("Failed to extract text content",
                                    "TEXT_EXTRACTION_FAILED", TRUE, 0),
          cleaned |-> "", value |-> ""]
    ELSE LET cleaned == Cleaned(evaluated.text)
         IN  IF cleaned = "" \/ Len(cleaned) < MinContentLength
             THEN [error |-> SummarizerError("No meaningful content found on the page",
                                             "NO_CONTENT", FALSE, 0),
                   cleaned |-> cleaned, value |-> ""]
             ELSE [error |-> NoError, cleaned |-> cleaned, value |-> cleaned]

(***************************************************************************)
(* SpecText: removeDuplicateLines(input) is called, or the text extraction *)
(* of summarizeWebsite (lines 607-613: extractAndCleanText under           *)
(* retryWithBackoff) runs on a page whose evaluate returns input.          *)
(***************************************************************************)
\* the lines the texts explored are made of: two lines of 30 characters, a
\* variant of the first in other case and padding, a line of 29 characters
\* padded to 31, a line of 19 characters and the empty line
LinePool ==
    { "lorem-ipsum-dolor-sit-amet-con",
      "  LOREM-Ipsum-dolor-sit-amet-con ",
      "sed-do-eiusmod-tempor-incididu",
      "lorem-ipsum-dolor-sit-amet-co  ",
      "ut-labore-et-dolore",
      "" }

TextPool == {Join(lines) : lines \in SeqsUpTo(LinePool, MaxLines)}

\* the maxRetries of the extraction's retry sequence in the runs explored
TextMaxRetries == 1

RemoveDuplicateLinesCalled ==
    /\ tx.pc = "new"
    /\ tx' = [tx EXCEPT !.deduplicated = removeDuplicateLines(tx.input),
                        !.pc = "deduplicated"]
    /\ UNCHANGED <<rlVars, retryVars, batchVars, ws, dom, api>>

\* line 311: page.evaluate settled, and extractAndCleanText with it
TextEvaluateDone(ok) ==
    /\ tx.pc \in {"new", "extracting"}
    /\ tx.call.pc = "call"
    /\ LET result == extractAndCleanText([ok |-> ok, text |-> tx.input])
       IN  tx' = IF result.error = NoError
                 THEN [tx EXCEPT !.cleaned = result.cleaned, !.pc = "extracted",
                                 !.call = RetryOnSuccess(@, result.value)]
                 ELSE LET call == RetryOnFailure(tx.call, result.error)
                      IN  [tx EXCEPT !.cleaned = result.cleaned, !.call = call,
                                     !.pc = IF call.pc = "sleep" THEN "extracting"
                                            ELSE "extracted"]
    /\ UNCHANGED <<rlVars, retryVars, batchVars, ws, dom, api>>

\* line 137 in the extraction's retryWithBackoff
TextSleepDone ==
    /\ tx.pc = "extracting"
    /\ tx.call.pc = "sleep"
    /\ tx' = [tx EXCEPT !.call = RetryAfterSleep(@)]
    /\ UNCHANGED <<rlVars, retryVars, batchVars, ws, dom, api>>

InitText ==
    /\ \E text \in TextPool :
          tx = [TextIdle EXCEPT
                   !.input = text, !.pc = "new",
                   !.call = RetryInit(TextMaxRetries, SummaryRetryBaseDelay,
                                      "Extracting text")]
    /\ ws = WebsiteIdle
    /\ dom = DomIdle
    /\ api = ApiIdle
    /\ rl = RateLimiter(1, 1)
    /\ now = StartTime
    /\ opStatus = [o \in Ops |-> "new"]
    /\ starts = <<>>
    /\ handoffs = {}
    /\ calls = NoCalls
    /\ rb = RetryIdle
    /\ opLog = <<>>
    /\ waited = 0
    /\ BatchIdle

NextText ==
    \/ RemoveDuplicateLinesCalled
    \/ \E ok \in BOOLEAN : TextEvaluateDone(ok)
    \/ TextSleepDone

SpecText == InitText /\ [][NextText]_vars

(***************************************************************************)
(* Properties of the text functions, checked under SpecText.               *)
(***************************************************************************)
\* line k of lines has a normalised form of 30 characters or more that an
\* earlier line has too
RepeatsEarlierLongLine(lines, k) ==
    /\ Len(Normalized(lines[k])) >= 30
    /\ \E j \in 1..(k - 1) : Normalized(lines[j]) = Normalized(lines[k])

\* the elements of lines at the indices in keep, in their order
Pick(lines, keep) ==
    [n \in 1..Cardinality(keep) |->
        lines[CHOOSE k \in keep : Cardinality({j \in keep : j <= k}) = n]]

\* C16: removeDuplicateLines keeps a line whose trimmed, lower-cased form has
\* 30 characters or more iff no earlier line has the same normalised form, keeps
\* every line whose normalised form is shorter even when repeated, and the
\* kept lines keep their order and their original text.
C16_FirstLongOccurrenceKept ==
    tx.pc = "deduplicated" =>
        LET lines == Split(tx.input)
            keep == {k \in 1..Len(lines) : ~RepeatsEarlierLongLine(lines, k)}
        IN  Split(tx.deduplicated) = Pick(lines, keep)

\* a long line repeated in other case and padding is dropped, a repeated
\* short line is kept twice
C16_VariantDroppedShortKept ==
    /\ tx.pc = "deduplicated"
    /\ tx.input = "lorem-ipsum-dolor-sit-amet-con\nlorem-ipsum-dolor-sit-amet-co  \n"
                  \o "lorem-ipsum-dolor-sit-amet-co  \n  LOREM-Ipsum-dolor-sit-amet-con "
    /\ tx.deduplicated = "lorem-ipsum-dolor-sit-amet-con\nlorem-ipsum-dolor-sit-amet-co  \n"
                         \o "lorem-ipsum-dolor-sit-amet-co  "

\* C17: extractAndCleanText fails with NO_CONTENT, marked non-retryable,
\* exactly when the cleaned text is empty or shorter than 50 characters, and
\* otherwise returns the cleaned text; the enclosing retry sequence makes no
\* further attempt after a NO_CONTENT failure.
C17_NoContentIffShortAndFinal ==
    /\ (tx.pc = "extracted" /\ tx.call.raised.code /= "MAX_RETRIES_EXCEEDED") =>
          IF Len(tx.cleaned) < 50
          THEN /\ tx.call.pc = "raised"
               /\ tx.call.raised.kind = "SummarizerError"
               /\ tx.call.raised.code = "NO_CONTENT"
               /\ ~tx.call.raised.retryable
          ELSE /\ tx.call.pc = "returned"
               /\ tx.call.value = tx.cleaned
    /\ tx.call.lastError.code = "NO_CONTENT" =>
          /\ tx.pc = "extracted" /\ tx.call.pc = "raised"
          /\ tx.call.raised = tx.call.lastError
          /\ Len(tx.call.waits) = tx.call.calls - 1

\* two long lines that differ in case and padding only: 64 characters before
\* deduplication, 30 after it, and NO_CONTENT is raised after a single call
C17_NoContentAfterDeduplication ==
    /\ tx.input = "lorem-ipsum-dolor-sit-amet-con\n  LOREM-Ipsum-dolor-sit-amet-con "
    /\ tx.cleaned = "lorem-ipsum-dolor-sit-amet-con"
    /\ tx.call.pc = "raised"
    /\ tx.call.raised.code = "NO_CONTENT"
    /\ tx.call.calls = 1
    /\ tx.call.maxRetries = 1

\* the text has a run of three newlines or more
HasLongNewlineRun(text) ==
    \E i \in 1..(Len(text) - 2) : SubSeq(text, i, i + 2) = "\n\n\n"

\* C38: the text extractAndCleanText returns never has 3 or more consecutive
\* newlines and has no leading or trailing whitespace.
C38_ReturnedTextNormalised ==
    (tx.pc = "extracted" /\ tx.call.pc = "returned") =>
        /\ ~HasLongNewlineRun(tx.call.value)
        /\ Trim(tx.call.value) = tx.call.value

(***************************************************************************)
(* The document of a page and the three functions evaluated in it          *)
(* (src/script.ts:242-335). A document is its title, its meta elements and *)
(* the sequence of the elements of its body, in document order; an element *)
(* is its tag, class and role, its visible text (innerText) and the href   *)
(* attributes of the anchors inside it.                                    *)
(***************************************************************************)
\* lines 312-316
NOISE ==
    << "nav", "footer", "aside", "script", "style", "noscript", "iframe",
       "header", "[role=\"navigation\"]", ".cookie", ".consent", ".ads",
       ".popup", ".modal" >>

\* lines 322-324
CANDIDATES == << "article", "main", "[role=\"main\"]", ".content", ".post" >>

\* Element.matches(selector) for the three forms of selector the code uses:
\* .class, [role="value"] and tag
Matches(el, selector) ==
    IF StartsWith(selector, ".")
    THEN el.class = SubSeq(selector, 2, Len(selector))
    ELSE IF StartsWith(selector, "[role=\"")
    THEN el.role = SubSeq(selector, Len("[role=\"") + 1, Len(selector) - Len("\"]"))
    ELSE el.tag = selector

\* lines 318-320: the body once every element matching a NOISE selector is
\* removed
RemoveNoise(body) ==
    SelectSeq(body, LAMBDA el : \A k \in 1..Len(NOISE) : ~Matches(el, NOISE[k]))

\* document.querySelector(selector): the place of the first element that
\* matches (0: null)
querySelector(body, selector) ==
    IF \A k \in 1..Len(body) : ~Matches(body[k], selector) THEN 0
    ELSE CHOOSE k \in 1..Len(body) :
            /\ Matches(body[k], selector)
            /\ \A m \in 1..(k - 1) : ~Matches(body[m], selector)

RECURSIVE BestCandidate(_, _, _)
\* lines 326-332: the loop over CANDIDATES from selector k on
BestCandidate(body, k, best) ==
    IF k > Len(CANDIDATES) THEN best
    ELSE LET el == querySelector(body, CANDIDATES[k])
         IN  IF el = 0 THEN BestCandidate(body, k + 1, best)
             ELSE LET text == Trim(body[el].text)
                  IN  BestCandidate(body, k + 1,
                                    IF Len(text) > Len(best) THEN text ELSE best)

\* document.body.innerText: the texts of the elements, one per line
InnerText(body) == Join([k \in 1..Len(body) |-> body[k].text])

\* lines 311-335: the function extractAndCleanText evaluates in the page;
\* doc is the document it leaves, text what it returns
EvaluateText(doc) ==
    LET body == RemoveNoise(doc.body)
        best == BestCandidate(body, 1, "")
    IN  [doc |-> [doc EXCEPT !.body = body],
         text |-> IF best /= "" THEN best ELSE InnerText(body)]

\* lines 244-255: the function extractMetadata evaluates in the page
EvaluateMetadata(doc, url) ==
    [title |-> IF doc.title /= "" THEN doc.title ELSE doc.meta.title,
     description |-> doc.meta.description,
     url |-> url]

\* url up to its fragment
WithoutFragment(url) ==
    LET hash == FirstIndexOf(url, {"#"})
    IN  IF hash = 0 THEN url ELSE SubSeq(url, 1, hash - 1)

\* new URL(url).origin
Origin(url) ==
    LET colon == FirstIndexOf(url, {":"})
        authority == SubSeq(url, colon + 3, Len(url))
        end == FirstIndexOf(authority, {"/", "?", "#"})
    IN  SubSeq(url, 1, colon + 2)
            \o (IF end = 0 THEN authority ELSE SubSeq(authority, 1, end - 1))

\* url up to the last "/" of its path
Directory(url) ==
    LET query == FirstIndexOf(url, {"?", "#"})
        path == IF query = 0 THEN url ELSE SubSeq(url, 1, query - 1)
        slashes == {k \in (Len(Origin(url)) + 1)..Len(path) : CharAt(path, k) = "/"}
    IN  IF slashes = {} THEN Origin(url) \o "/"
        ELSE SubSeq(path, 1, CHOOSE k \in slashes : \A m \in slashes : m <= k)

\* HTMLAnchorElement.href (line 274): the href attribute resolved against
\* the URL of the document
Href(attr, base) ==
    IF attr = "" THEN WithoutFragment(base)
    ELSE IF StartsWith(attr, "#") THEN WithoutFragment(base) \o attr
    ELSE IF ParsesAsUrl(attr) THEN attr
    ELSE IF StartsWith(attr, "//") THEN Protocol(base) \o attr
    ELSE IF StartsWith(attr, "/") THEN Origin(base) \o attr
    ELSE Directory(base) \o attr

RECURSIVE AnchorAttributes(_)
\* querySelectorAll('a[href]') (line 273): the href attributes of the
\* anchors of the body, in document order
AnchorAttributes(body) ==
    IF Len(body) = 0 THEN <<>>
    ELSE body[1].hrefs \o AnchorAttributes(Tail(body))

\* lines 273-274: the href properties of the anchors of the document
AnchorHrefs(doc, base) ==
    LET attrs == AnchorAttributes(doc.body)
    IN  [k \in 1..Len(attrs) |-> Href(attrs[k], base)]

(***************************************************************************)
(* SpecDom: the extractions of summarizeWebsite (lines 606-627) on one     *)
(* loaded page: text and metadata extraction, each under retryWithBackoff, *)
(* then the discovery of links, all evaluated in the same live document.   *)
(***************************************************************************)
MaxElements == 2          \* a body has at most this many elements

\* the URLs of the pages explored
DomUrls == {"https://a.example/docs/guide"}

\* the title and meta elements of the pages explored
HeadPool ==
    { [title |-> "Guide", meta |-> [title |-> "", description |-> "How to"]],
      [title |-> "", meta |-> [title |-> "Guide (og)", description |-> ""]] }

\* the elements the bodies explored are made of
ElementPool ==
    { [tag |-> "nav", class |-> "", role |-> "",
       text |-> "Home | Docs | About",
       hrefs |-> <<"/docs", "#top">>],
      [tag |-> "footer", class |-> "", role |-> "",
       text |-> "Contact",
       hrefs |-> <<"https://a.example/contact", "https://other.example/">>],
      [tag |-> "article", class |-> "", role |-> "",
       text |-> "The release notes of this week are short and plain.",
       hrefs |-> <<"/notes", "#comments">>],
      [tag |-> "article", class |-> "", role |-> "",
       text |-> "A far longer article, about every change of the release and the reasons for each of them.",
       hrefs |-> <<>>],
      [tag |-> "main", class |-> "", role |-> "",
       text |-> "",
       hrefs |-> <<>>],
      [tag |-> "div", class |-> "content", role |-> "",
       text |-> "   The content block has the text that readers came to the page for.   ",
       hrefs |-> <<"next">>],
      [tag |-> "div", class |-> "", role |-> "",
       text |-> "Plain paragraphs outside of any landmark, long enough to count as content.",
       hrefs |-> <<"#section", "https://a.example/docs/guide#section">>],
      [tag |-> "div", class |-> "ads", role |-> "",
       text |-> "Buy now",
       hrefs |-> <<"https://ads.example/">>],
      [tag |-> "div", class |-> "", role |-> "navigation",
       text |-> "Sitemap",
       hrefs |-> <<"/sitemap">>] }

\* line 606: a member of Promise.all settled
DomSettled(d) ==
    IF d.text.pc = "raised" \/ d.meta.pc = "raised" THEN [d EXCEPT !.pc = "raised"]
    ELSE IF d.text.pc = "returned" /\ d.meta.pc = "returned"
    THEN [d EXCEPT !.pc = "extractLinks"]
    ELSE d

\* lines 309-361 under retryWithBackoff: the page.evaluate of
\* extractAndCleanText settled. When it threw, the removals had been done
\* (removed) or not.
DomTextEvaluated(ok, removed) ==
    /\ dom.pc = "extract"
    /\ dom.text.pc = "call"
    /\ ok => removed
    /\ LET evaluated == EvaluateText(dom.doc)
           result == extractAndCleanText([ok |-> ok, text |-> evaluated.text])
           d == [dom EXCEPT !.doc = IF removed THEN evaluated.doc ELSE @,
                            !.evaluated = IF ok THEN evaluated.text ELSE @]
       IN  dom' = DomSettled(
                    IF result.error = NoError
                    THEN [d EXCEPT !.text = RetryOnSuccess(@, result.value)]
                    ELSE [d EXCEPT !.text = RetryOnFailure(@, result.error)])
    /\ UNCHANGED <<rlVars, retryVars, batchVars, ws, tx, api>>

\* lines 242-268 under retryWithBackoff: the page.evaluate of
\* extractMetadata settled
DomMetadataEvaluated(ok) ==
    /\ dom.pc = "extract"
    /\ dom.meta.pc = "call"
    /\ dom' = DomSettled(
                IF ok
                THEN [dom EXCEPT !.meta = RetryOnSuccess(@,
                                             EvaluateMetadata(dom.doc, dom.url))]
                ELSE [dom EXCEPT !.meta = RetryOnFailure(@,
                         SummarizerError("Failed to extract metadata",
                                         "METADATA_EXTRACTION_FAILED", TRUE, 0))])
    /\ UNCHANGED <<rlVars, retryVars, batchVars, ws, tx, api>>

\* line 137 in the retryWithBackoff of text extraction
DomTextSleepDone ==
    /\ dom.pc = "extract"
    /\ dom.text.pc = "sleep"
    /\ dom' = [dom EXCEPT !.text = RetryAfterSleep(@)]
    /\ UNCHANGED <<rlVars, retryVars, batchVars, ws, tx, api>>

\* line 137 in the retryWithBackoff of metadata extraction
DomMetadataSleepDone ==
    /\ dom.pc = "extract"
    /\ dom.meta.pc = "sleep"
    /\ dom' = [dom EXCEPT !.meta = RetryAfterSleep(@)]
    /\ UNCHANGED <<rlVars, retryVars, batchVars, ws, tx, api>>

\* lines 627 and 270-293: the page.evaluate of extractLinks settled
DomLinksEvaluated(ok) ==
    /\ dom.pc = "extractLinks"
    /\ dom' = [dom EXCEPT
                  !.links = IF ok
                            THEN extractLinks(AnchorHrefs(dom.doc, dom.url), dom.url)
                            ELSE <<>>,
                  !.pc = "done"]
    /\ UNCHANGED <<rlVars, retryVars, batchVars, ws, tx, api>>

InitDom ==
    /\ \E url \in DomUrls, head \in HeadPool,
         body \in SeqsUpTo(ElementPool, MaxElements) :
          LET doc == [title |-> head.title, meta |-> head.meta, body |-> body]
          IN  dom = [DomIdle EXCEPT
                        !.url = url, !.loaded = doc, !.doc = doc, !.pc = "extract",
                        !.text = RetryInit(TextMaxRetries, SummaryRetryBaseDelay,
                                           "Extracting text"),
                        !.meta = RetryInit(TextMaxRetries, SummaryRetryBaseDelay,
                                           "Extracting metadata")]
    /\ ws = WebsiteIdle
    /\ tx = TextIdle
    /\ api = ApiIdle
    /\ rl = RateLimiter(1, 1)
    /\ now = StartTime
    /\ opStatus = [o \in Ops |-> "new"]
    /\ starts = <<>>
    /\ handoffs = {}
    /\ calls = NoCalls
    /\ rb = RetryIdle
    /\ opLog = <<>>
    /\ waited = 0
    /\ BatchIdle

NextDom ==
    \/ \E ok, removed \in BOOLEAN : DomTextEvaluated(ok, removed)
    \/ \E ok \in BOOLEAN : DomMetadataEvaluated(ok)
    \/ DomTextSleepDone
    \/ DomMetadataSleepDone
    \/ \E ok \in BOOLEAN : DomLinksEvaluated(ok)

SpecDom == InitDom /\ [][NextDom]_vars

(***************************************************************************)
(* Properties of the evaluations in the page, checked under SpecDom.       *)
(***************************************************************************)
\* C28: every link extractLinks returned is the href of an anchor of the
\* page whose href attribute is not a bare fragment ("#section").
C28_NoFragmentLinkReturned ==
    LET attrs == AnchorAttributes(dom.loaded.body)
    IN  \A j \in 1..Len(dom.links) :
            \E k \in 1..Len(attrs) :
                /\ ~StartsWith(attrs[k], "#")
                /\ Href(attrs[k], dom.url) = dom.links[j]

\* C29: whatever text extraction has done, metadata extraction and the
\* discovery of links observe in the live document what they would have
\* observed in the document as it was loaded.
C29_ExtractionLeavesPageUnchanged ==
    /\ EvaluateMetadata(dom.doc, dom.url) = EvaluateMetadata(dom.loaded, dom.url)
    /\ AnchorHrefs(dom.doc, dom.url) = AnchorHrefs(dom.loaded, dom.url)

\* C30: the text the evaluation returned is the trimmed text of the element
\* with the greatest trimmed text length among all the elements, left after
\* the removal of noise, that match a candidate selector (the first seen of
\* them, selector by selector, when several have that length), and the
\* text of the whole body only when no element matches.
C30_GreatestCandidateSelected ==
    LET body == RemoveNoise(dom.loaded.body)
        selectorOf(k) == CHOOSE c \in 1..Len(CANDIDATES) :
                            /\ Matches(body[k], CANDIDATES[c])
                            /\ \A b \in 1..(c - 1) : ~Matches(body[k], CANDIDATES[b])
        matched == {k \in 1..Len(body) :
                        \E c \in 1..Len(CANDIDATES) : Matches(body[k], CANDIDATES[c])}
        length(k) == Len(Trim(body[k].text))
        greatest == {k \in matched : \A m \in matched : length(m) <= length(k)}
        first == CHOOSE k \in greatest :
                    \A m \in greatest \ {k} :
                        \/ selectorOf(k) < selectorOf(m)
                        \/ (selectorOf(k) = selectorOf(m) /\ k < m)
    IN  dom.evaluated /= Undefined =>
            dom.evaluated = IF matched = {} THEN InnerText(body)
                            ELSE Trim(body[first].text)

(***************************************************************************)
(* SpecScraper: one Scraper.withRetry(fn, config) call of the library      *)
(* (src/src/scraper.ts:28-44). The locals of the call are in rb:           *)
(*   retry, config      this.config.retry and the config argument          *)
(*   attempts, delay, backoff   the values destructured at line 29         *)
(*   i          the loop counter                                           *)
(*   pc         "call" (awaiting fn), "sleep" (awaiting the timer),        *)
(*              "returned" or "raised"                                     *)
(*   lastError, value, raised                                              *)
(*   waits      history: the delays of the timers set, in order            *)
(* opLog is the history of fn's outcomes, waited the time slept.           *)
(***************************************************************************)
MaxAttempts == 3          \* attempts ranges over 0..MaxAttempts

\* line 6
DEFAULT_RETRY == [attempts |-> 3, delay |-> 1000, backoff |-> "exponential"]

\* the value of a key of a RetryConfig that is not set
Absent(key) == IF key = "backoff" THEN Undefined ELSE NotConfigured

\* a RetryConfig without any key
NoRetryConfig == [key \in {"attempts", "delay", "backoff"} |-> Absent(key)]

\* line 29: { ...this.config.retry, ...config }, a key of config standing
\* for its value
Spread(retry, config) ==
    [key \in {"attempts", "delay", "backoff"} |->
        IF config[key] /= Absent(key) THEN config[key] ELSE retry[key]]

\* line 29: a destructured key with its default
Destructured(merged, key) ==
    IF merged[key] = Absent(key) THEN DEFAULT_RETRY[key] ELSE merged[key]

RECURSIVE Pow2(_)
\* Math.pow(2, i)
Pow2(i) == IF i = 0 THEN 1 ELSE 2 * Pow2(i - 1)

BackoffWaitDoubledFromFirst(backoff, delay, i) ==
    IF backoff = "exponential" THEN delay * Pow2(i + 1) ELSE delay * (i + 1)

\* line 38
BackoffWait(backoff, delay, i) ==
    IF backoff = "exponential" THEN delay * Pow2(i) ELSE delay * (i + 1)

\* line 43: new EngineError(`Failed after ${attempts} attempts: ...`, lastError)
EngineError(attempts, lastError) ==
    [kind |-> "EngineError", attempts |-> attempts, cause |-> lastError]

\* lines 29-34: withRetry up to its first await, or to its throw when the
\* loop is not entered
WithRetry(retry, config) ==
    LET merged == Spread(retry, config)
        attempts == Destructured(merged, "attempts")
        r == [retry |-> retry, config |-> config,
              attempts |-> attempts,
              delay |-> Destructured(merged, "delay"),
              backoff |-> Destructured(merged, "backoff"),
              i |-> 0, pc |-> "call", lastError |-> Undefined,
              value |-> Undefined, raised |-> Undefined, waits |-> <<>>]
    IN  IF 0 < attempts THEN r
        ELSE [r EXCEPT !.pc = "raised", !.raised = EngineError(attempts, Undefined)]

\* line 34: fn() resolved with value v
WithRetryFnReturned(v) ==
    /\ rb.pc = "call"
    /\ rb' = [rb EXCEPT !.pc = "returned", !.value = v]
    /\ opLog' = Append(opLog, [ok |-> TRUE, value |-> v])
    /\ UNCHANGED <<waited, rlVars, batchVars, pageVars>>

\* lines 35-43: fn() rejected with err; the timer is set when an attempt
\* remains, else the loop ends and the EngineError is thrown
WithRetryFnThrew(err) ==
    /\ rb.pc = "call"
    /\ rb' = IF rb.i < rb.attempts - 1
             THEN [rb EXCEPT !.lastError = err, !.pc = "sleep",
                             !.waits = Append(@, BackoffWait(rb.backoff, rb.delay, rb.i))]
             ELSE [rb EXCEPT !.lastError = err, !.i = @ + 1, !.pc = "raised",
                             !.raised = EngineError(rb.attempts, err)]
    /\ opLog' = Append(opLog, [ok |-> FALSE, value |-> err])
    /\ UNCHANGED <<waited, rlVars, batchVars, pageVars>>

\* lines 39 and 32-34: the timer fired; i++ and fn() is called again
WithRetryTimerFired ==
    /\ rb.pc = "sleep"
    /\ rb' = [rb EXCEPT !.i = @ + 1, !.pc = "call"]
    /\ waited' = waited + rb.waits[Len(rb.waits)]
    /\ UNCHANGED <<opLog, rlVars, batchVars, pageVars>>

\* the RetryConfig values explored
RetryConfigs ==
    [attempts : {NotConfigured} \cup (0..MaxAttempts),
     delay : {NotConfigured} \cup (1..MaxBaseDelay),
     backoff : {Undefined, "linear", "exponential"}]

\* the this.config.retry values explored
ScraperRetryConfigs ==
    {NoRetryConfig, [attempts |-> 2, delay |-> 5, backoff |-> "linear"]}

InitScraper ==
    /\ \E retry \in ScraperRetryConfigs, config \in RetryConfigs :
          rb = WithRetry(retry, config)
    /\ opLog = <<>>
    /\ waited = 0
    /\ rl = RateLimiter(1, 1)
    /\ now = StartTime
    /\ opStatus = [o \in Ops |-> "new"]
    /\ starts = <<>>
    /\ handoffs = {}
    /\ calls = NoCalls
    /\ BatchIdle
    /\ PageIdle

NextScraper ==
    \/ \E v \in Values : WithRetryFnReturned(v)
    \/ WithRetryFnThrew(PlainError("scrape failed", Len(opLog) + 1))
    \/ WithRetryTimerFired

SpecScraper == InitScraper /\ [][NextScraper]_vars

\* C33: withRetry invokes fn at most attempts times (3 when neither config
\* sets it) and returns the first success; after failed attempt i, when
\* another attempt remains, it waits delay * 2^i (exponential, the default)
\* or delay * (i + 1) (linear); after attempts failures it raises an
\* EngineError with the attempt count and the last error.
C33_WithRetryAttemptsAndWaits ==
    LET given(key) == IF rb.config[key] /= Absent(key) THEN rb.config[key]
                      ELSE rb.retry[key]
        attempts == IF given("attempts") = NotConfigured THEN 3 ELSE given("attempts")
        delay == IF given("delay") = NotConfigured THEN 1000 ELSE given("delay")
        exponential == given("backoff") \in {Undefined, "exponential"}
        failed == {k \in 1..Len(opLog) : ~opLog[k].ok}
    IN  /\ Len(opLog) <= attempts
        /\ \A k \in 1..(Len(opLog) - 1) : k \in failed
        /\ rb.pc = "returned" <=> (Len(opLog) > 0 /\ opLog[Len(opLog)].ok)
        /\ rb.pc = "returned" => rb.value = opLog[Len(opLog)].value
        /\ Len(rb.waits) = (IF Cardinality(failed) < attempts THEN Cardinality(failed)
                            ELSE IF attempts = 0 THEN 0 ELSE attempts - 1)
        /\ \A k \in 1..Len(rb.waits) :
              rb.waits[k] = IF exponential THEN delay * (2 ^ (k - 1)) ELSE delay * k
        /\ rb.pc = "raised" <=> Cardinality(failed) = attempts
        /\ rb.pc = "raised" =>
              /\ rb.raised.kind = "EngineError"
              /\ rb.raised.attempts = attempts
              /\ attempts > 0 => rb.raised.cause = opLog[attempts].value

\* three failed attempts with the default configuration: waits of 1000 and
\* 2000, then the EngineError
C33_DefaultsExhausted ==
    /\ rb.config = NoRetryConfig /\ rb.retry = NoRetryConfig
    /\ rb.pc = "raised"
    /\ Len(opLog) = 3
    /\ rb.waits = <<1000, 2000>>

(***************************************************************************)
(* SpecSummarize: the summarizeContent calls of one run, one after the     *)
(* other (src/script.ts:407-436): each hands to rateLimiter.execute a      *)
(* closure that runs generateText under retryWithBackoff. rb holds the     *)
(* locals of that retryWithBackoff call, starts the instants at which      *)
(* generateText was called, opLog how each summarizeContent call ended.    *)
(* The clock is advanced by timers only.                                   *)
(***************************************************************************)
MaxSummaries == 2         \* summarizeContent is called at most this many times

\* the --retry-delay values explored: not given, the least and the greatest
\* allowed (lines 845-846), and the values around minDelay
SummaryRetryDelays == {NotConfigured, 100, 999, 1000, 30000}

\* lines 411-412 and 429-433: the closure starts retryWithBackoff, which
\* calls generateText
SummaryClosureStarted(t) ==
    /\ rb' = RetryInit(OrDefault(options.maxRetries, DefaultMaxRetries),
                       OrDefault(options.retryDelay, SummaryRetryBaseDelay),
                       "Summarization")
    /\ starts' = Append(starts, t)

\* line 411: summarizeContent is called when the previous call has settled
SummarizeContentCalled ==
    /\ SummaryOp \notin InFlight(rl)
    /\ Len(opLog) < MaxSummaries
    /\ LET rl2 == RLExecute(rl, SummaryOp, now)
       IN  /\ rl' = rl2
           /\ IF SummaryOp \in rl2.active
              THEN SummaryClosureStarted(now)
              ELSE UNCHANGED <<rb, starts>>
    /\ UNCHANGED <<now, opLog, waited, opStatus, handoffs, calls, urls, options, bs,
                   hist, pageVars>>

\* line 69: the spacing timer of the closure fired
SummarySpacingTimerFired ==
    /\ \E d \in rl.delaying :
          LET t == IF d.wake > now THEN d.wake ELSE now
          IN  /\ now' = t
              /\ rl' = RLTimerFire(rl, d.op, t)
              /\ SummaryClosureStarted(t)
    /\ UNCHANGED <<opLog, waited, opStatus, handoffs, calls, batchVars, pageVars>>

\* lines 414-427 under retryWithBackoff: generateText settled
SummaryGenerateSettled(reply) ==
    /\ rb.pc = "call"
    /\ LET error == GenerateResult(reply, "AI model returned empty response")
           failed == RetryOnFailure(rb, error)
       IN  IF error = NoError
           THEN /\ rb' = RetryOnSuccess(rb, reply.text)
                /\ rl' = RLComplete(rl, SummaryOp, now)
                /\ opLog' = Append(opLog, "returned")
           ELSE IF failed.pc = "sleep"
           THEN /\ rb' = failed
                /\ UNCHANGED <<rl, opLog>>
           ELSE /\ rb' = failed
                /\ rl' = RLComplete(rl, SummaryOp, now)
                /\ opLog' = Append(opLog, "raised")
    /\ UNCHANGED <<now, starts, waited, opStatus, handoffs, calls, batchVars, pageVars>>

\* line 137: the backoff timer fired and generateText is called again
SummaryBackoffTimerFired ==
    /\ rb.pc = "sleep"
    /\ now' = now + rb.delay
    /\ rb' = RetryAfterSleep(rb)
    /\ starts' = Append(starts, now + rb.delay)
    /\ UNCHANGED <<rl, opLog, waited, opStatus, handoffs, calls, batchVars, pageVars>>

\* lines 646 and 683: the caller awaits sleep(1000) between two calls
SummaryCallerPaced ==
    /\ SummaryOp \notin InFlight(rl)
    /\ Len(opLog) \in 1..(MaxSummaries - 1)
    /\ now < starts[Len(starts)] + PacingDelay
    /\ now' = now + PacingDelay
    /\ UNCHANGED <<rl, rb, starts, opLog, waited, opStatus, handoffs, calls, batchVars,
                   pageVars>>

InitSummarize ==
    /\ options \in [maxRetries : {1, 2}, retryDelay : SummaryRetryDelays,
                    comparative : {FALSE}]
    /\ rl = RateLimiter(RateLimitMaxConcurrent, RateLimitMinDelay)
    /\ now = RateLimitMinDelay
    /\ starts = <<>>
    /\ rb = RetryIdle
    /\ opLog = <<>>
    /\ waited = 0
    /\ opStatus = [o \in Ops |-> "new"]
    /\ handoffs = {}
    /\ calls = NoCalls
    /\ urls = <<>>
    /\ bs = BatchIdleState
    /\ hist = NoHistory
    /\ PageIdle

NextSummarize ==
    \/ SummarizeContentCalled
    \/ SummarySpacingTimerFired
    \/ \E reply \in ModelReplies : SummaryGenerateSettled(reply)
    \/ SummaryBackoffTimerFired
    \/ SummaryCallerPaced

SpecSummarize == InitSummarize /\ [][NextSummarize]_vars

\* C36: any two consecutive generateText calls start at least minDelay
\* (1000 ms) apart, retries of one summarization included.
C36_GenerateCallsMinDelayApart ==
    \A k \in 1..(Len(starts) - 1) : starts[k + 1] - starts[k] >= RateLimitMinDelay

(***************************************************************************)
(* SpecApi: the API server (src/unnamed/part_003) after startServer. Each  *)
(* action is one turn of the event loop: a handler from the event that     *)
(* resumes it to its next await on the browser process. POST /scrape       *)
(* requests arrive while the server listens, SIGTERM / SIGINT run the      *)
(* shutdown callback, and a browser may disconnect on its own.             *)
(***************************************************************************)
\* Browser.isConnected()
isConnected(a, id) == a.browsers[id] = "open"

\* the browsers launched and neither closed nor gone
OpenBrowsers == {id \in 1..Len(api.browsers) : api.browsers[id] = "open"}

\* lines 41-43: the catch of the handler sends 500, unless the response was
\* sent already (res.json of line 37)
Caught(request) ==
    [request EXCEPT !.pc = "done",
                    !.response = IF request.response = 0 THEN 500 ELSE @]

\* lines 25-31: a request arrives; without url 400 is sent, else getBrowser
\* (lines 9-14) runs to chromium.launch, or returns browser and newPage is called
\* (requests are numbered in their order of arrival)
ScrapeReceived(r, hasUrl) ==
    /\ api.listening /\ ~api.exited
    /\ api.requests[r].pc = "idle"
    /\ r > 1 => api.requests[r - 1].pc /= "idle"
    /\ api' = IF ~hasUrl
              THEN [api EXCEPT !.requests[r].pc = "done", !.requests[r].response = 400]
              ELSE IF api.browser = 0 \/ ~isConnected(api, api.browser)
              THEN [api EXCEPT !.browsers = Append(@, "launching"),
                               !.requests[r].b = Len(api.browsers) + 1,
                               !.requests[r].pc = "launch"]
              ELSE [api EXCEPT !.requests[r].b = api.browser,
                               !.requests[r].pc = "newPage"]
    /\ UNCHANGED <<rlVars, retryVars, batchVars, ws, tx, dom>>

\* lines 11-13, 31-32: chromium.launch settled; the launched browser is
\* assigned to browser and returned, and newPage is called on it
LaunchSettled(r, ok) ==
    /\ ~api.exited
    /\ api.requests[r].pc = "launch"
    /\ LET id == api.requests[r].b
       IN  api' = IF ok
                  THEN [api EXCEPT !.browsers[id] = "open", !.browser = id,
                                   !.requests[r].pc = "newPage"]
                  ELSE [api EXCEPT !.browsers[id] = "failed",
                                   !.requests[r] = Caught(@)]
    /\ UNCHANGED <<rlVars, retryVars, batchVars, ws, tx, dom>>

\* lines 32-35: b.newPage() settled (it cannot succeed on a browser that is
\* gone); page.goto is called
NewPageSettled(r, ok) ==
    /\ ~api.exited
    /\ api.requests[r].pc = "newPage"
    /\ ok => isConnected(api, api.requests[r].b)
    /\ api' = IF ok THEN [api EXCEPT !.requests[r].pc = "goto"]
              ELSE [api EXCEPT !.requests[r] = Caught(@)]
    /\ UNCHANGED <<rlVars, retryVars, batchVars, ws, tx, dom>>

\* lines 35-36, 38-39: page.goto settled; page.content is called, or the
\* finally block calls page.close
GotoSettled(r, ok) ==
    /\ ~api.exited
    /\ api.requests[r].pc = "goto"
    /\ ok => isConnected(api, api.requests[r].b)
    /\ api' = IF ok THEN [api EXCEPT !.requests[r].pc = "content"]
              ELSE [api EXCEPT !.requests[r].pc = "closePage",
                               !.requests[r].failed = TRUE]
    /\ UNCHANGED <<rlVars, retryVars, batchVars, ws, tx, dom>>

\* lines 36-39: page.content settled; the html is sent, and the finally
\* block calls page.close
ContentSettled(r, ok) ==
    /\ ~api.exited
    /\ api.requests[r].pc = "content"
    /\ ok => isConnected(api, api.requests[r].b)
    /\ api' = IF ok
              THEN [api EXCEPT !.requests[r].pc = "closePage",
                               !.requests[r].response = 200]
              ELSE [api EXCEPT !.requests[r].pc = "closePage",
                               !.requests[r].failed = TRUE]
    /\ UNCHANGED <<rlVars, retryVars, batchVars, ws, tx, dom>>

\* lines 39-43: page.close settled; the error of the try block, or that of
\* page.close, reaches the catch
PageCloseSettled(r, ok) ==
    /\ ~api.exited
    /\ api.requests[r].pc = "closePage"
    /\ api' = IF ok /\ ~api.requests[r].failed
              THEN [api EXCEPT !.requests[r].pc = "done"]
              ELSE [api EXCEPT !.requests[r] = Caught(@)]
    /\ UNCHANGED <<rlVars, retryVars, batchVars, ws, tx, dom>>

\* lines 51-54, 16-18: a signal runs shutdown; closeBrowser calls
\* browser.close() if browser is set, else server.close is called at once
\* (signals are numbered in their order of delivery)
ShutdownSignalled(s) ==
    /\ ~api.exited
    /\ api.shutdowns[s].pc = "idle"
    /\ s > 1 => api.shutdowns[s - 1].pc /= "idle"
    /\ api' = IF api.browser /= 0
              THEN [api EXCEPT !.shutdowns[s].pc = "closing",
                               !.shutdowns[s].closing = api.browser]
              ELSE [api EXCEPT !.shutdowns[s].pc = "done", !.listening = FALSE]
    /\ UNCHANGED <<rlVars, retryVars, batchVars, ws, tx, dom>>

\* lines 18-19, 54: browser.close() resolved; browser = null, server.close
BrowserCloseSettled(s) ==
    /\ ~api.exited
    /\ api.shutdowns[s].pc = "closing"
    /\ api' = [api EXCEPT !.browsers[api.shutdowns[s].closing] = "closed",
                          !.browser = 0,
                          !.shutdowns[s].pc = "done",
                          !.listening = FALSE]
    /\ UNCHANGED <<rlVars, retryVars, batchVars, ws, tx, dom>>

\* line 54: the callback of server.close runs once every connection has
\* ended, and calls process.exit(0)
ProcessExited ==
    /\ ~api.exited
    /\ ~api.listening
    /\ \A r \in 1..MaxRequests : api.requests[r].pc \in {"idle", "done"}
    /\ api' = [api EXCEPT !.exited = TRUE]
    /\ UNCHANGED <<rlVars, retryVars, batchVars, ws, tx, dom>>

\* line 10: a launched browser disconnects on its own (isConnected() is
\* false from then on)
BrowserDisconnected(id) ==
    /\ ~api.exited
    /\ id \in OpenBrowsers
    /\ api' = [api EXCEPT !.browsers[id] = "crashed"]
    /\ UNCHANGED <<rlVars, retryVars, batchVars, ws, tx, dom>>

\* lines 46-49: startServer was called, browser is null
InitApi ==
    /\ api = [ApiIdle EXCEPT !.listening = TRUE]
    /\ ws = WebsiteIdle
    /\ tx = TextIdle
    /\ dom = DomIdle
    /\ rl = RateLimiter(1, 1)
    /\ now = StartTime
    /\ opStatus = [o \in Ops |-> "new"]
    /\ starts = <<>>
    /\ handoffs = {}
    /\ calls = NoCalls
    /\ rb = RetryIdle
    /\ opLog = <<>>
    /\ waited = 0
    /\ BatchIdle

NextApi ==
    \/ \E r \in 1..MaxRequests, hasUrl \in BOOLEAN : ScrapeReceived(r, hasUrl)
    \/ \E r \in 1..MaxRequests, ok \in BOOLEAN : LaunchSettled(r, ok)
    \/ \E r \in 1..MaxRequests, ok \in BOOLEAN : NewPageSettled(r, ok)
    \/ \E r \in 1..MaxRequests, ok \in BOOLEAN : GotoSettled(r, ok)
    \/ \E r \in 1..MaxRequests, ok \in BOOLEAN : ContentSettled(r, ok)
    \/ \E r \in 1..MaxRequests, ok \in BOOLEAN : PageCloseSettled(r, ok)
    \/ \E s \in 1..MaxSignals : ShutdownSignalled(s)
    \/ \E s \in 1..MaxSignals : BrowserCloseSettled(s)
    \/ ProcessExited
    \/ \E id \in 1..MaxRequests : BrowserDisconnected(id)

SpecApi == InitApi /\ [][NextApi]_vars

(***************************************************************************)
(* Properties of the API server, checked under SpecApi.                    *)
(***************************************************************************)
\* C39: at any time at most one launched browser has not been closed, it is
\* the one held in the module-level variable browser, and when the process
\* exits closeBrowser has closed every browser that was launched.
C39_OnlyHeldBrowserOpen ==
    /\ Cardinality(OpenBrowsers) <= 1
    /\ \A id \in OpenBrowsers : api.browser = id
    /\ api.exited => OpenBrowsers = {}

====
